---- MODULE Spec2Model ----
(***************************************************************************)
(* Model of the AutoInfluencer discovery pipeline:                         *)
(*   optimized_multi_api_finder.py  (OptimizedMultiAPIKeyFinder)           *)
(*   optimized_youtube_analyzer.py  (OptimizedYouTubeAnalyzer)             *)
(* Strings are tuples of one-character strings, so that strip, lstrip,     *)
(* lower, upper and split are computed and not assumed.                    *)
(***************************************************************************)
EXTENDS Integers, Sequences, FiniteSets, TLC

\* ------------------------------------------------------------------ bounds
MaxKeys == 2
MaxKeywords == 2
MaxResults == 2
MaxTarget == 2
MaxCount == 50

\* ------------------------------------------------------- program constants
MinSubscribers == 10000
MaxSubscribers == 100000
MinViewsPerVideo == 1000
MinVideosWithMinViews == 8
ProcessMaxResults == 15
MaxChannelsPerKeyword == 50

\* ----------------------------------------------------------------- strings
Empty == << >>

UpperLetters == <<"A", "B", "C", "E", "N", "O", "S", "U", "X", "Y">>
LowerLetters == <<"a", "b", "c", "e", "n", "o", "s", "u", "x", "y">>

\* str.lower() on the letters
LowerMap == [i \in DOMAIN UpperLetters |-> LowerLetters[i]]
\* str.upper() on the letters
UpperMap == [i \in DOMAIN LowerLetters |-> UpperLetters[i]]

\* the position of ch in letters, 0 when it is not one of them
RECURSIVE IndexIn(_, _, _)
IndexIn(ch, letters, i) ==
    IF i > Len(letters) THEN 0
    ELSE IF letters[i] = ch THEN i ELSE IndexIn(ch, letters, i + 1)

LowerCh(ch) ==
    LET i == IndexIn(ch, UpperLetters, 1) IN IF i = 0 THEN ch ELSE LowerMap[i]

UpperCh(ch) ==
    LET i == IndexIn(ch, LowerLetters, 1) IN IF i = 0 THEN ch ELSE UpperMap[i]

Lower(s) == [i \in DOMAIN s |-> LowerCh(s[i])]
Upper(s) == [i \in DOMAIN s |-> UpperCh(s[i])]

RECURSIVE LStripSet(_, _)
\* str.lstrip(chars)
LStripSet(s, chars) ==
    IF s = Empty THEN Empty
    ELSE IF Head(s) \in chars THEN LStripSet(Tail(s), chars) ELSE s

RECURSIVE RStripSet(_, _)
RStripSet(s, chars) ==
    IF s = Empty THEN Empty
    ELSE IF s[Len(s)] \in chars THEN RStripSet(SubSeq(s, 1, Len(s) - 1), chars)
    ELSE s

\* str.strip()
Strip(s) == RStripSet(LStripSet(s, {" "}), {" "})
\* str.lstrip('@')
LStripAt(s) == LStripSet(s, {"@"})
\* str.replace('@', '')
RemoveAt(s) == SelectSeq(s, LAMBDA ch : ch # "@")

\* str.split(delim): every delimiter splits, empty fields are kept; the fields
\* are what stands between one delimiter, or an end of s, and the next
Split(s, delims) ==
    LET cuts == << 0 >>
                \o SelectSeq([i \in 1..Len(s) |-> i], LAMBDA i : s[i] \in delims)
                \o << Len(s) + 1 >>
    IN  [k \in 1..(Len(cuts) - 1) |-> SubSeq(s, cuts[k] + 1, cuts[k + 1] - 1)]

\* s.startswith(prefix)
StartsWith(s, prefix) ==
    Len(s) >= Len(prefix) /\ SubSeq(s, 1, Len(prefix)) = prefix

\* ---------------------------------------------------------------- channels
UC1 == <<"U", "C", "1">>
UC2 == <<"U", "C", "2">>
Channels == {UC1, UC2}

NoUrl == <<"<", "n", "o", "n", "e", ">">>

\* snippet.title / channelTitle of each channel, as the API returns it
ChannelTitle(c) ==
    CASE c = UC1 -> <<"E", "x">>
      [] OTHER   -> <<"B", "o">>

\* snippet.customUrl of each channel (NoUrl: the field is absent)
CustomUrl(c) ==
    CASE c = UC1 -> <<"@", "e", "x">>
      [] OTHER   -> NoUrl

\* the contents discovered.csv can have: a sequence of rows, or unreadable
RegistryFiles ==
    { << >>,
      << [Handle |-> <<" ", "@", "U", "C", "2", ",", " ", "@", "X", "y">>,
          ChannelID |-> <<"x", "1">>] >>,
      << [Handle |-> <<"E", "X">>, ChannelID |-> Empty],
         [Handle |-> Empty, ChannelID |-> <<" ", "U", "C", "1">>] >> }

\* ---------------------------------------------------------------- registry
\* __init__: the handles cell is split on runs of ' ' and ',', each part is
\* stripped, '@'-stripped and lowercased, empty parts are dropped
RowHandles(row) ==
    LET parts == Split(Strip(row.Handle), {" ", ","})
        norm(h) == Lower(LStripAt(Strip(h)))
    IN  { norm(parts[i]) : i \in DOMAIN parts } \ {Empty}

\* __init__: the id cell is kept when it is non-empty and starts with 'UC'
RowChannelIds(row) ==
    LET channel_id == Strip(row.ChannelID)
    IN  IF channel_id # Empty /\ StartsWith(channel_id, <<"U", "C">>)
        THEN {channel_id} ELSE {}

LoadDiscoveredHandles(file) == UNION { RowHandles(file[i]) : i \in DOMAIN file }
LoadDiscoveredChannelIds(file) == UNION { RowChannelIds(file[i]) : i \in DOMAIN file }

\* _is_discovered looking at the titles and the id only
IsDiscoveredByTitle(handles, ids, channel_info, item_title_raw) ==
    LET channel_id == Strip(channel_info.channel_id)
        title == Lower(Strip(channel_info.title))
        item_title == Lower(LStripAt(Strip(item_title_raw)))
    IN  \/ \E h \in {title, item_title} : h # Empty /\ h \in handles
        \/ channel_id # Empty /\ channel_id \in ids

\* _is_discovered(channel_info, item)
IsDiscovered(handles, ids, channel_info, item_title_raw) ==
    LET handle == Lower(LStripAt(Strip(channel_info.handle)))
        custom_url == Lower(RemoveAt(Strip(channel_info.handle)))
        channel_id == Strip(channel_info.channel_id)
        title == Lower(Strip(channel_info.title))
        item_title == Lower(LStripAt(Strip(item_title_raw)))
    IN  \/ \E h \in {handle, custom_url, title, item_title} :
              h # Empty /\ h \in handles
        \/ channel_id # Empty /\ channel_id \in ids

\* ----------------------------------------------------------- channel profile
None == [channel_id |-> Empty, title |-> Empty, handle |-> Empty, subscriber_count |-> 0]

\* the subscriber counts the API can report: UC1 sits at the lower end of the
\* admission range, the others at the upper end
SubscriberValues(c) ==
    IF c = UC1 THEN {MinSubscribers - 1, MinSubscribers}
    ELSE {MaxSubscribers, MaxSubscribers + 1}

\* what channels().list can do: fail with the quota signal, fail otherwise,
\* return no items, return a channel without subscriberCount, or a channel
DetailsOutcomes(c) ==
    { [kind |-> k, subs |-> 0] : k \in {"quota", "error", "no_items", "no_subs"} }
    \cup { [kind |-> "ok", subs |-> n] : n \in SubscriberValues(c) }

\* the handle get_channel_details builds: '@' + customUrl, or '@' + id
ResolvedHandle(c) ==
    <<"@">> \o (IF CustomUrl(c) = NoUrl THEN c ELSE CustomUrl(c))

\* a channel's resolved handle as _is_discovered normalises it
NormalizedHandle[c \in Channels] == Lower(LStripAt(Strip(ResolvedHandle(c))))
\* a search result's channelTitle as _is_discovered normalises it
NormalizedTitle[c \in Channels] == Lower(LStripAt(Strip(ChannelTitle(c))))

\* an admission filter that leaves out the two ends of the range
GetChannelDetailsExclusive(c, out) ==
    IF out.kind # "ok" THEN None
    ELSE IF ~(MinSubscribers < out.subs /\ out.subs < MaxSubscribers) THEN None
    ELSE [channel_id |-> c, title |-> ChannelTitle(c),
          handle |-> ResolvedHandle(c), subscriber_count |-> out.subs]

\* get_channel_details: every exception, the quota signal included, gives None
GetChannelDetails(c, out) ==
    IF out.kind # "ok" THEN None
    ELSE IF ~(MinSubscribers <= out.subs /\ out.subs <= MaxSubscribers) THEN None
    ELSE [channel_id |-> c, title |-> ChannelTitle(c),
          handle |-> ResolvedHandle(c), subscriber_count |-> out.subs]

\* ------------------------------------------------------------- channel items
\* a list of videos, each its statistics.viewCount: g at the threshold, then
\* b just under it
VideoList(g, b) ==
    [i \in 1..(g + b) |-> IF i <= g THEN MinViewsPerVideo ELSE MinViewsPerVideo - 1]

Min2(a, b) == IF a <= b THEN a ELSE b

\* what search().list(channelId=..., maxResults=count) can do
ItemSearchOutcomes(count) ==
    { [kind |-> k, n |-> 0] : k \in {"quota", "error"} }
    \cup { [kind |-> "ok", n |-> n] :
             n \in {0, 1, Min2(MinVideosWithMinViews, count), count} }

\* what videos().list(id=<n ids>) can do
BatchDetailOutcomes(n) ==
    { [kind |-> k, videos |-> Empty] : k \in {"quota", "error"} }
    \cup { [kind |-> "ok", videos |-> VideoList(gb[1], gb[2])] :
             gb \in { x \in {0, MinVideosWithMinViews - 1, MinVideosWithMinViews} \X {0, 1} :
                        x[1] + x[2] <= n } }

\* get_channel_videos_with_stats asking for the details of each video apart
GetChannelVideosPerVideo(count, so, do) ==
    IF so.kind # "ok" THEN
        [videos |-> Empty, raised |-> "none", search_calls |-> 1, detail_calls |-> 0,
         quota |-> so.kind = "quota"]
    ELSE IF do.kind # "ok" THEN
        [videos |-> Empty, raised |-> "none", search_calls |-> 1, detail_calls |-> so.n,
         quota |-> do.kind = "quota"]
    ELSE
        [videos |-> do.videos, raised |-> "none", search_calls |-> 1,
         detail_calls |-> so.n, quota |-> FALSE]

\* get_channel_videos_with_stats: one search call, then one batch call unless
\* the search failed or came back empty; every exception gives []
GetChannelVideosWithStats(count, so, do) ==
    IF so.kind # "ok" THEN
        [videos |-> Empty, raised |-> "none", search_calls |-> 1, detail_calls |-> 0,
         quota |-> so.kind = "quota"]
    ELSE IF so.n = 0 THEN
        [videos |-> Empty, raised |-> "none", search_calls |-> 1, detail_calls |-> 0,
         quota |-> FALSE]
    ELSE IF do.kind # "ok" THEN
        [videos |-> Empty, raised |-> "none", search_calls |-> 1, detail_calls |-> 1,
         quota |-> do.kind = "quota"]
    ELSE
        [videos |-> do.videos, raised |-> "none", search_calls |-> 1, detail_calls |-> 1,
         quota |-> FALSE]

\* ------------------------------------------------------------ classification
YES == <<"Y", "E", "S">>
CouldNotParse == <<"Could not parse AI response">>
CouldNotFetch == <<"Could not fetch videos">>
\* _call_ai_api's placeholder for analysis_type "content analysis":
\* "Unable to generate content analysis - AI services unavailable."
Unavailable ==
    << "U", "n", "a", "b", "l", "e", " ", "t", "o", " ", "g", "e",
       "n", "e", "r", "a", "t", "e", " ", "c", "o", "n", "t", "e",
       "n", "t", " ", "a", "n", "a", "l", "y", "s", "i", "s", " ",
       "-", " ", "A", "I", " ", "s", "e", "r", "v", "i", "c", "e",
       "s", " ", "u", "n", "a", "v", "a", "i", "l", "a", "b", "l",
       "e", "." >>

\* what analyze_content can return
AIResponses ==
    { <<"Y", "E", "S", "|", "a", "|", "b">>,
      <<" ", "y", "e", "s", " ", "|", " ", "a", "|", "b", "|", "c">>,
      <<"N", "O", "|", "a", "|", "b">>,
      <<"Y", "E", "S", "|", "a">>,
      <<"Y", "E", "S">>,
      Unavailable }

\* a parse that compares the decision field as it stands
ParseNicheCaseSensitive(response) ==
    LET parts == Split(response, {"|"})
    IN  IF Len(parts) >= 3
        THEN [is_match |-> Strip(parts[1]) = YES,
              explanation |-> Strip(parts[2]), category |-> Strip(parts[3])]
        ELSE [is_match |-> FALSE, explanation |-> CouldNotParse, category |-> Empty]

\* a parse that takes an answer of fewer than three fields for a match
ParseNicheUnparsedAsMatch(ai_response) ==
    LET parts == Split(ai_response, {"|"})
    IN  IF Len(parts) >= 3
        THEN [is_match |-> Upper(Strip(parts[1])) = YES,
              explanation |-> Strip(parts[2]), category |-> Strip(parts[3])]
        ELSE [is_match |-> TRUE, explanation |-> CouldNotParse, category |-> Empty]

\* the parse at the end of verify_niche_from_cached_videos
ParseNiche(ai_response) ==
    LET parts == Split(ai_response, {"|"})
    IN  IF Len(parts) >= 3
        THEN [is_match |-> Upper(Strip(parts[1])) = YES,
              explanation |-> Strip(parts[2]), category |-> Strip(parts[3])]
        ELSE [is_match |-> FALSE, explanation |-> CouldNotParse, category |-> Empty]

\* verify_niche_from_cached_videos asking again when the answer does not parse
VerifyNicheRetrying(videos, ai_response) ==
    IF videos = Empty
    THEN [is_match |-> FALSE, explanation |-> CouldNotFetch, category |-> Empty,
          classify_calls |-> 0]
    ELSE [is_match |-> ParseNiche(ai_response).is_match,
          explanation |-> ParseNiche(ai_response).explanation,
          category |-> ParseNiche(ai_response).category,
          classify_calls |-> IF Len(Split(ai_response, {"|"})) >= 3 THEN 1 ELSE 2]

\* verify_niche_from_cached_videos: one analyze_content call on the videos it
\* is handed, none when there are no videos
VerifyNicheFromCachedVideos(videos, ai_response) ==
    IF videos = Empty
    THEN [is_match |-> FALSE, explanation |-> CouldNotFetch, category |-> Empty,
          classify_calls |-> 0]
    ELSE [is_match |-> ParseNiche(ai_response).is_match,
          explanation |-> ParseNiche(ai_response).explanation,
          category |-> ParseNiche(ai_response).category,
          classify_calls |-> 1]

\* the views filter of process_channel_optimized letting every video through
VideosUnfiltered(videos) == videos

\* the views filter of process_channel_optimized
VideosWithMinViews(videos) == SelectSeq(videos, LAMBDA v : v >= MinViewsPerVideo)

\* how many of the videos have at least min_views_per_video views
Qualifying(videos) ==
    Cardinality({ i \in DOMAIN videos : videos[i] >= MinViewsPerVideo })

\* --------------------------------------------------------- credential pool
\* switch_to_next_api_key as a circular rotation (app.py's switch_to_next_key)
NextKeyIndexCircular(index, n) == (index + 1) % n

\* switch_to_next_api_key: self.current_key_index += 1
NextKeyIndex(index, n) == index + 1

\* switch_to_next_api_key: the index is advanced first, then checked; the
\* analyzer is rebuilt only when the check passes
SwitchToNextApiKey(index, n) ==
    LET next == NextKeyIndex(index, n)
    IN  [index |-> next, ok |-> ~(next >= n)]

\* an except clause that takes every HttpError for the quota signal
IsAnyHttpError(kind) == kind \in {"quota", "error"}

\* "e.resp.status == 403 and ('quotaExceeded' in str(e) or
\* 'dailyLimitExceeded' in str(e))" in search_channels_by_keyword
IsQuotaExceeded(kind) == kind = "quota"

\* a rotation that goes on with the analyzer it has
KeepCurrentAnalyzer(keys, index, current) == current

\* _initialize_current_analyzer after the index has moved: current_analyzer
\* becomes OptimizedYouTubeAnalyzer(api_keys[current_key_index]), whose
\* __init__ starts with video_cache = {}
InitializeCurrentAnalyzer(keys, index, current) ==
    [key |-> keys[index + 1], video_cache |-> {}]

\* get_channel_videos_with_stats: self.video_cache[video['id']] = video_data
\* for every video of the batch answer
CacheVideos(cache, channel_id, videos) ==
    IF videos = Empty THEN cache ELSE cache \cup {channel_id}

\* run_optimized_discovery handling KeyboardInterrupt only
RunHandlesInterruptOnly(exc) == exc = "KeyboardInterrupt"

\* the except clauses of run_optimized_discovery
RunHandles(exc) == exc \in {"QuotaExceededError", "KeyboardInterrupt"}

\* ------------------------------------------------------ per-candidate step
NoCalls ==
    [ret |-> FALSE, stage |-> "none", items_search |-> 0, batch_detail |-> 0,
     tracked |-> 0, rate_wait |-> 0, classify |-> 0, saved |-> FALSE,
     quota |-> FALSE, fetch_raised |-> "none", videos |-> Empty]

\* a candidate step that counts a candidate whose save raised
ProcessChannelCountingFailedSave(channel_info, discovered, so, do, ai_response, save_ok) ==
    LET fetch == GetChannelVideosWithStats(ProcessMaxResults, so, do)
        videos == fetch.videos
        niche == VerifyNicheFromCachedVideos(videos, ai_response)
        fetched == [NoCalls EXCEPT !.items_search = fetch.search_calls,
                                   !.batch_detail = fetch.detail_calls,
                                   !.quota = fetch.quota,
                                   !.fetch_raised = fetch.raised,
                                   !.videos = videos]
        classified == [fetched EXCEPT !.tracked = 2, !.rate_wait = 1,
                                      !.classify = niche.classify_calls]
    IN  IF channel_info.channel_id \in discovered
        THEN [NoCalls EXCEPT !.stage = "already_processed"]
        ELSE IF videos = Empty
        THEN [fetched EXCEPT !.stage = "no_videos"]
        ELSE IF Len(VideosWithMinViews(videos)) < MinVideosWithMinViews
        THEN [fetched EXCEPT !.stage = "low_views"]
        ELSE IF ~niche.is_match
        THEN [classified EXCEPT !.stage = "no_match"]
        ELSE IF ~save_ok
        THEN [classified EXCEPT !.stage = "save_failed", !.ret = TRUE]
        ELSE [classified EXCEPT !.stage = "accepted", !.ret = TRUE, !.saved = TRUE]

\* a candidate step that saves a match and reports no match
ProcessChannelSavingUncounted(channel_info, discovered, so, do, ai_response, save_ok) ==
    LET fetch == GetChannelVideosWithStats(ProcessMaxResults, so, do)
        videos == fetch.videos
        niche == VerifyNicheFromCachedVideos(videos, ai_response)
        fetched == [NoCalls EXCEPT !.items_search = fetch.search_calls,
                                   !.batch_detail = fetch.detail_calls,
                                   !.quota = fetch.quota,
                                   !.fetch_raised = fetch.raised,
                                   !.videos = videos]
        classified == [fetched EXCEPT !.tracked = 2, !.rate_wait = 1,
                                      !.classify = niche.classify_calls]
    IN  IF channel_info.channel_id \in discovered
        THEN [NoCalls EXCEPT !.stage = "already_processed"]
        ELSE IF videos = Empty
        THEN [fetched EXCEPT !.stage = "no_videos"]
        ELSE IF Len(VideosWithMinViews(videos)) < MinVideosWithMinViews
        THEN [fetched EXCEPT !.stage = "low_views"]
        ELSE IF ~niche.is_match
        THEN [classified EXCEPT !.stage = "no_match"]
        ELSE IF ~save_ok
        THEN [classified EXCEPT !.stage = "save_failed"]
        ELSE [classified EXCEPT !.stage = "accepted", !.saved = TRUE]

\* process_channel_optimized(channel_info), given what the two API calls, the
\* classifier and the CSV write do
ProcessChannelOptimized(channel_info, discovered, so, do, ai_response, save_ok) ==
    LET fetch == GetChannelVideosWithStats(ProcessMaxResults, so, do)
        videos == fetch.videos
        niche == VerifyNicheFromCachedVideos(videos, ai_response)
        fetched == [NoCalls EXCEPT !.items_search = fetch.search_calls,
                                   !.batch_detail = fetch.detail_calls,
                                   !.quota = fetch.quota,
                                   !.fetch_raised = fetch.raised,
                                   !.videos = videos]
        classified == [fetched EXCEPT !.tracked = 2, !.rate_wait = 1,
                                      !.classify = niche.classify_calls]
    IN  IF channel_info.channel_id \in discovered
        THEN [NoCalls EXCEPT !.stage = "already_processed"]
        ELSE IF videos = Empty
        THEN [fetched EXCEPT !.stage = "no_videos"]
        ELSE IF Len(VideosWithMinViews(videos)) < MinVideosWithMinViews
        THEN [fetched EXCEPT !.stage = "low_views"]
        ELSE IF ~niche.is_match
        THEN [classified EXCEPT !.stage = "no_match"]
        ELSE IF ~save_ok
        THEN [classified EXCEPT !.stage = "save_failed"]
        ELSE [classified EXCEPT !.stage = "accepted", !.ret = TRUE, !.saved = TRUE]

\* what the two API calls, the classifier and the CSV write can do during one
\* process_channel_optimized call; a step that is not reached is held at one value
ProcessScenarios ==
    LET Scenario(so, do, ai_response, save_ok) ==
            [so |-> so, do |-> do, ai_response |-> ai_response, save_ok |-> save_ok]
        unreached == [kind |-> "error", videos |-> Empty]
        full == [kind |-> "ok", n |-> ProcessMaxResults]
        Qualifies(do) ==
            Len(VideosWithMinViews(do.videos)) >= MinVideosWithMinViews
    IN  { Scenario(so, unreached, Unavailable, TRUE) :
            so \in { x \in ItemSearchOutcomes(ProcessMaxResults) : x.n = 0 } }
        \cup { Scenario(full, do, Unavailable, TRUE) :
                 do \in { x \in BatchDetailOutcomes(ProcessMaxResults) : ~Qualifies(x) } }
        \cup { Scenario(full, do, ai_response, save_ok) :
                 do \in { x \in BatchDetailOutcomes(ProcessMaxResults) : Qualifies(x) },
                 ai_response \in AIResponses, save_ok \in BOOLEAN }

\* search_channels_by_keyword's test without the run's discovered set
SeenThisSessionOnly(channel_id, seen, discovered) == channel_id \in seen

\* search_channels_by_keyword: channel_id in channel_ids_seen or in
\* self.discovered_channels
SeenThisSession(channel_id, seen, discovered) ==
    channel_id \in seen \/ channel_id \in discovered

\* -------------------------------------------------------------------- state
VARIABLES
    api_keys,               \* self.api_keys, the keys named 1..n
    current_key_index,      \* self.current_key_index
    analyzer_key,           \* the key self.current_analyzer was built on
    video_cache,            \* self.current_analyzer.video_cache: the channels with videos in it
    api_calls_per_key,      \* self.api_calls_per_key
    discovered_channels,    \* self.discovered_channels
    discovered_handles,     \* self.discovered_handles
    discovered_channel_ids, \* self.discovered_channel_ids
    csv_rows,               \* the rows save_to_csv has written, by channel id
    target,                 \* target_influencers
    pc,                     \* where run_optimized_discovery stands
    kw,                     \* keywords taken from the list so far
    matches_found,          \* matches_found
    search_items,           \* the items of search_response the for loop has yet to visit
    channel_ids_seen,       \* channel_ids_seen
    channels_found,         \* channels_found
    channels,               \* channels, the list the run iterates
    channels_in_keyword,    \* channels_in_keyword
    outcome,                \* running, returned or crashed
    returned,               \* the value run_optimized_discovery returned
    done_reason,            \* why the run ended
    rotate_log,             \* every switch_to_next_api_key call so far
    ev                      \* what the last step did: its calls and its result

\* the classifier gateway (AIAnalyzer) and the two rate limiters
VARIABLES
    groq_client,            \* self.groq_client is set
    openai_client,          \* self.openai_client is set
    now,                    \* time.time(), in ticks
    last_groq_call_time,    \* AIAnalyzer.last_groq_call_time
    last_ai_call_time,      \* OptimizedMultiAPIKeyFinder.last_ai_call_time
    ai_pc,                  \* where the analyze_content request stands
    ai_trace,               \* what the request has done so far, in order
    ai_result,              \* what analyze_content returned
    wait_returns            \* the times _ensure_ai_rate_limit returned at

\* the niche parser
VARIABLES
    ai_response,            \* the string analyze_content handed to the parser
    niche,                  \* the parser's (is_match, explanation, category)
    duration,               \* a video's contentDetails.duration
    video_data              \* the duration_seconds and is_short made from it

\* the transcription service (WhisperAPIServer) and its clients
VARIABLES
    request_queue,          \* self.request_queue, the request ids in order
    results,                \* self.results, request id -> result
    processing_stats,       \* self.processing_stats
    worker,                 \* where each worker thread stands in _process_queue
    handlers,               \* where each client's request stands
    used_ids,               \* the request ids uuid4 has handed out
    whisper_log,            \* what the service has done so far, in order
    whisper,                \* self.whisper, the transcriber __init__ built
    poll_log                \* what get_result has answered so far, in order

\* the web app (app.py) and the loading of the YouTube keys
VARIABLES
    environ,                \* the YOUTUBE_API_KEY slots set in the environment
    api_manager,            \* st.session_state.api_manager
    app_pc,                 \* where the app's main() stands
    retry_count,            \* main's retry_count
    analyses,               \* the analyses asked for so far
    app_log,                \* the key switches and API calls of the app, in order
    finder                  \* what the discovery script's main() got from the constructor

aiVars == << groq_client, openai_client, now, last_groq_call_time, last_ai_call_time,
             ai_pc, ai_trace, ai_result, wait_returns >>
parseVars == << ai_response, niche, duration, video_data >>
whisperVars == << request_queue, results, processing_stats, worker, handlers,
                  used_ids, whisper_log, poll_log, whisper >>
appVars == << environ, api_manager, app_pc, retry_count, analyses, app_log, finder >>
otherVars == << aiVars, parseVars, whisperVars, appVars >>

\* no classifier request under way
AiIdle ==
    /\ groq_client = FALSE
    /\ openai_client = FALSE
    /\ now = 0
    /\ last_groq_call_time = 0
    /\ last_ai_call_time = 0
    /\ ai_pc = "off"
    /\ ai_trace = << >>
    /\ ai_result = << >>
    /\ wait_returns = << >>

\* no response handed to the parser
ParseIdle ==
    /\ ai_response = << >>
    /\ niche = [parsed |-> FALSE, value |-> << >>]
    /\ duration = << >>
    /\ video_data = [parsed |-> FALSE, duration_seconds |-> 0, is_short |-> FALSE]

\* no transcription service running
WhisperIdle ==
    /\ request_queue = << >>
    /\ results = << >>
    /\ processing_stats = << >>
    /\ worker = << >>
    /\ handlers = << >>
    /\ used_ids = {}
    /\ whisper_log = << >>
    /\ poll_log = << >>
    /\ whisper = "none"

\* no web app session and no discovery script started
AppIdle ==
    /\ environ = {}
    /\ api_manager = << >>
    /\ app_pc = "off"
    /\ retry_count = 0
    /\ analyses = 0
    /\ app_log = << >>
    /\ finder = << >>

OtherIdle == AiIdle /\ ParseIdle /\ WhisperIdle /\ AppIdle

runVars ==
    << api_keys, current_key_index, analyzer_key, video_cache, api_calls_per_key,
       discovered_channels, discovered_handles, discovered_channel_ids, csv_rows,
       target, pc, kw, matches_found, search_items, channel_ids_seen,
       channels_found, channels, channels_in_keyword, outcome, returned,
       done_reason, rotate_log, ev >>

vars == << runVars, otherVars >>
\* everything but the classifier gateway, the parser, the transcription service
notAiVars == << runVars, parseVars, whisperVars, appVars >>
notParseVars == << runVars, aiVars, whisperVars, appVars >>
notWhisperVars == << runVars, aiVars, parseVars, appVars >>
notAppVars == << runVars, aiVars, parseVars, whisperVars >>

poolVars == << api_keys, current_key_index, analyzer_key, video_cache,
              api_calls_per_key, rotate_log >>
registryVars == << discovered_handles, discovered_channel_ids >>
resultVars == << discovered_channels, csv_rows, matches_found >>
scanVars == << search_items, channel_ids_seen, channels_found >>
endVars == << outcome, returned, done_reason >>

NumKeywords == MaxKeywords

IdleEv ==
    [op |-> "none", id |-> Empty, count |-> 0, search_kind |-> "none",
     search_nonempty |-> FALSE,
     detail_kind |-> "none", keyword_search |-> 0, profile |-> 0, items_search |-> 0,
     batch_detail |-> 0, classify |-> 0, rate_wait |-> 0, quota |-> FALSE,
     key_before |-> 0, rotated |-> FALSE, retried |-> FALSE, stage |-> "none",
     ret |-> FALSE, saved |-> FALSE, fetch_raised |-> "none", qualifying |-> 0, was_discovered |-> FALSE, appended |-> FALSE,
     subs |-> 0, retries |-> 0, ai_unavailable |-> FALSE]

\* all sequences over S of length at most n
RECURSIVE SeqsUpTo(_, _)
SeqsUpTo(S, n) ==
    IF n = 0 THEN { Empty }
    ELSE LET shorter == SeqsUpTo(S, n - 1)
         IN  shorter \cup { Append(q, x) : q \in shorter, x \in S }

\* what search().list(q=keyword, maxResults=...) can do
KeywordSearchOutcomes ==
    { [kind |-> k, items |-> Empty] : k \in {"quota", "error"} }
    \cup { [kind |-> "ok", items |-> q] : q \in SeqsUpTo(Channels, MaxResults) }

\* __init__, then run_optimized_discovery entered with a positive target
Init ==
    /\ api_keys \in { [i \in 1..n |-> i] : n \in 1..MaxKeys }
    /\ current_key_index = 0
    /\ analyzer_key = 1
    /\ video_cache = {}
    /\ api_calls_per_key = [i \in 0..(Len(api_keys) - 1) |-> 0]
    /\ discovered_channels = {}
    /\ \E file \in RegistryFiles :
          /\ discovered_handles = LoadDiscoveredHandles(file)
          /\ discovered_channel_ids = LoadDiscoveredChannelIds(file)
    /\ csv_rows = Empty
    /\ target \in 1..MaxTarget
    /\ pc = "loop"
    /\ kw = 0
    /\ matches_found = 0
    /\ search_items = Empty
    /\ channel_ids_seen = {}
    /\ channels_found = Empty
    /\ channels = Empty
    /\ channels_in_keyword = 0
    /\ outcome = "running"
    /\ returned = -1
    /\ done_reason = "none"
    /\ rotate_log = Empty
    /\ ev = IdleEv
    /\ OtherIdle

\* track_api_usage, k times
TrackApiUsage(k) ==
    [api_calls_per_key EXCEPT ![current_key_index] = @ + k]

\* the end of run_optimized_discovery: the summary and return matches_found
Finish(reason) ==
    /\ pc' = "done"
    /\ outcome' = "returned"
    /\ returned' = matches_found
    /\ done_reason' = reason

\* a loop head that gives up after the first keyword
NextKeywordFirstOnly ==
    /\ pc = "loop"
    /\ ev' = IdleEv
    /\ IF kw >= 1
       THEN Finish("queries") /\ kw' = kw
       ELSE IF matches_found >= target
       THEN Finish("target") /\ kw' = kw
       ELSE /\ kw' = kw + 1
            /\ pc' = "search"
            /\ UNCHANGED endVars
    /\ UNCHANGED << poolVars, registryVars, resultVars, scanVars, target,
                    channels, channels_in_keyword >>
    /\ UNCHANGED otherVars

\* run_optimized_discovery: the head of the for loop over the keywords
NextKeyword ==
    /\ pc = "loop"
    /\ ev' = IdleEv
    /\ IF kw >= NumKeywords
       THEN Finish("queries") /\ kw' = kw
       ELSE IF matches_found >= target
       THEN Finish("target") /\ kw' = kw
       ELSE /\ kw' = kw + 1
            /\ pc' = "search"
            /\ UNCHANGED endVars
    /\ UNCHANGED << poolVars, registryVars, resultVars, scanVars, target,
                    channels, channels_in_keyword >>
    /\ UNCHANGED otherVars

\* search_channels_by_keyword: the search call and its except clauses
SearchChannelsByKeyword ==
    /\ pc = "search"
    /\ \E out \in KeywordSearchOutcomes :
         LET sw == SwitchToNextApiKey(current_key_index, Len(api_keys))
             call == [IdleEv EXCEPT !.op = "search", !.keyword_search = 1,
                                    !.search_kind = out.kind,
                                    !.quota = (out.kind = "quota"),
                                    !.key_before = current_key_index,
                                    !.retries = IF ev.op = "search" /\ ev.retried
                                                THEN ev.retries + 1 ELSE 0]
         IN
         /\ api_calls_per_key' = TrackApiUsage(1)
         /\ CASE out.kind = "ok" ->
                   /\ search_items' = out.items
                   /\ channel_ids_seen' = {}
                   /\ channels_found' = Empty
                   /\ pc' = "scan"
                   /\ ev' = [call EXCEPT !.stage = "ok"]
                   /\ UNCHANGED << current_key_index, analyzer_key, video_cache, rotate_log,
                                   channels, channels_in_keyword, endVars >>
              [] out.kind # "ok" /\ ~IsQuotaExceeded(out.kind) ->
                   /\ channels' = Empty
                   /\ channels_in_keyword' = 0
                   /\ pc' = "process"
                   /\ ev' = [call EXCEPT !.stage = "error"]
                   /\ UNCHANGED << current_key_index, analyzer_key, video_cache, rotate_log,
                                   scanVars, endVars >>
              [] out.kind # "ok" /\ IsQuotaExceeded(out.kind) ->
                   /\ current_key_index' = sw.index
                   /\ rotate_log' = Append(rotate_log,
                          [before |-> current_key_index, after |-> sw.index, ok |-> sw.ok])
                   /\ UNCHANGED << scanVars, channels, channels_in_keyword >>
                   /\ IF sw.ok
                      THEN /\ \E built \in {InitializeCurrentAnalyzer(api_keys, sw.index,
                                        [key |-> analyzer_key, video_cache |-> video_cache])} :
                                /\ analyzer_key' = built.key
                                /\ video_cache' = built.video_cache
                           /\ pc' = "search"
                           /\ ev' = [call EXCEPT !.stage = "retry", !.rotated = TRUE,
                                                 !.retried = TRUE]
                           /\ UNCHANGED endVars
                      ELSE /\ analyzer_key' = analyzer_key
                           /\ video_cache' = video_cache
                           /\ ev' = [call EXCEPT !.stage = "exhausted"]
                           /\ IF RunHandles("QuotaExceededError")
                              THEN Finish("exhausted")
                              ELSE /\ pc' = "done"
                                   /\ outcome' = "crashed"
                                   /\ returned' = returned
                                   /\ done_reason' = "exhausted"
    /\ UNCHANGED << api_keys, registryVars, resultVars, target, kw >>
    /\ UNCHANGED otherVars

\* search_channels_by_keyword: one turn of the for loop over the search items
ScanItem ==
    /\ pc = "scan"
    /\ search_items # Empty
    /\ LET channel_id == Head(search_items)
           item_title == ChannelTitle(channel_id)
           fake_channel_info == [channel_id |-> channel_id, title |-> item_title,
                                 handle |-> item_title, subscriber_count |-> 0]
           step == [IdleEv EXCEPT !.op = "scan", !.id = channel_id,
                                  !.key_before = current_key_index,
                                  !.was_discovered = (channel_id \in discovered_channels)]
       IN
       IF SeenThisSession(channel_id, channel_ids_seen, discovered_channels)
       THEN /\ ev' = [step EXCEPT !.stage = "seen"]
            /\ UNCHANGED << api_calls_per_key, channel_ids_seen, channels_found >>
       ELSE IF IsDiscovered(discovered_handles, discovered_channel_ids,
                            fake_channel_info, item_title)
       THEN /\ ev' = [step EXCEPT !.stage = "registry_pre"]
            /\ UNCHANGED << api_calls_per_key, channel_ids_seen, channels_found >>
       ELSE /\ channel_ids_seen' = channel_ids_seen \cup {channel_id}
            /\ api_calls_per_key' = TrackApiUsage(1)
            /\ \E out \in DetailsOutcomes(channel_id) :
               \E channel_info \in {GetChannelDetails(channel_id, out)} :
                 LET called == [step EXCEPT !.profile = 1, !.detail_kind = out.kind,
                                            !.quota = (out.kind = "quota"),
                                            !.subs = out.subs]
                 IN
                 IF channel_info = None
                 THEN /\ ev' = [called EXCEPT !.stage = "filtered"]
                      /\ channels_found' = channels_found
                 ELSE IF IsDiscovered(discovered_handles, discovered_channel_ids,
                                      channel_info, item_title)
                 THEN /\ ev' = [called EXCEPT !.stage = "registry_post"]
                      /\ channels_found' = channels_found
                 ELSE /\ ev' = [called EXCEPT !.stage = "found", !.appended = TRUE]
                      /\ channels_found' = Append(channels_found, channel_info)
    /\ search_items' = Tail(search_items)
    /\ UNCHANGED << api_keys, current_key_index, analyzer_key, video_cache, rotate_log,
                    registryVars, resultVars, target, pc, kw,
                    channels, channels_in_keyword, endVars >>
    /\ UNCHANGED otherVars

\* search_channels_by_keyword: return channels_found
ScanDone ==
    /\ pc = "scan"
    /\ search_items = Empty
    /\ channels' = channels_found
    /\ channels_in_keyword' = 0
    /\ pc' = "process"
    /\ ev' = IdleEv
    /\ UNCHANGED << poolVars, registryVars, resultVars, scanVars, target, kw, endVars >>
    /\ UNCHANGED otherVars

\* run_optimized_discovery: one turn of the for loop over the channels
ProcessChannel ==
    /\ pc = "process"
    /\ channels_in_keyword < Len(channels)
    /\ IF matches_found >= target \/ channels_in_keyword >= MaxChannelsPerKeyword
       THEN /\ pc' = "loop"
            /\ ev' = IdleEv
            /\ UNCHANGED << api_calls_per_key, resultVars, channels_in_keyword,
                            video_cache >>
       ELSE \E sc \in ProcessScenarios :
            \E r \in {ProcessChannelOptimized(channels[channels_in_keyword + 1],
                                              discovered_channels, sc.so, sc.do,
                                              sc.ai_response, sc.save_ok)} :
              LET channel_info == channels[channels_in_keyword + 1]
                  so == sc.so
                  do == sc.do
              IN
              /\ api_calls_per_key' = TrackApiUsage(r.tracked)
              /\ video_cache' = CacheVideos(video_cache, channel_info.channel_id, r.videos)
              /\ csv_rows' = IF r.saved
                             THEN Append(csv_rows, channel_info.channel_id)
                             ELSE csv_rows
              /\ discovered_channels' = IF r.saved
                                        THEN discovered_channels \cup {channel_info.channel_id}
                                        ELSE discovered_channels
              /\ matches_found' = IF r.ret THEN matches_found + 1 ELSE matches_found
              /\ channels_in_keyword' = channels_in_keyword + 1
              /\ pc' = "process"
              /\ ev' = [IdleEv EXCEPT
                          !.op = "process", !.id = channel_info.channel_id,
                          !.count = ProcessMaxResults,
                          !.search_kind = IF r.items_search = 1 THEN so.kind ELSE "none",
                          !.search_nonempty = (r.items_search = 1 /\ so.n > 0),
                          !.detail_kind = IF r.batch_detail = 1 THEN do.kind ELSE "none",
                          !.items_search = r.items_search,
                          !.batch_detail = r.batch_detail,
                          !.classify = r.classify, !.rate_wait = r.rate_wait,
                          !.quota = r.quota, !.key_before = current_key_index,
                          !.stage = r.stage, !.ret = r.ret, !.saved = r.saved,
                          !.fetch_raised = r.fetch_raised,
                          !.qualifying = Qualifying(r.videos),
                          !.subs = channel_info.subscriber_count,
                          !.ai_unavailable =
                              (r.classify = 1 /\ sc.ai_response = Unavailable),
                          !.was_discovered =
                              (channel_info.channel_id \in discovered_channels)]
    /\ UNCHANGED << api_keys, current_key_index, analyzer_key, rotate_log,
                    registryVars, scanVars, target, kw, channels, endVars >>
    /\ UNCHANGED otherVars

\* run_optimized_discovery: the for loop over the channels is exhausted
KeywordDone ==
    /\ pc = "process"
    /\ channels_in_keyword >= Len(channels)
    /\ pc' = "loop"
    /\ ev' = IdleEv
    /\ UNCHANGED << poolVars, registryVars, resultVars, scanVars, target, kw,
                    channels, channels_in_keyword, endVars >>
    /\ UNCHANGED otherVars

Next ==
    \/ NextKeyword
    \/ SearchChannelsByKeyword
    \/ ScanItem
    \/ ScanDone
    \/ ProcessChannel
    \/ KeywordDone

Spec == Init /\ [][Next]_vars

\* the run is one sequential thread: a step that can be taken is taken
LiveSpec == Init /\ [][Next]_vars /\ WF_vars(Next)

\* ------------------------------------------- get_channel_videos_with_stats
\* an analyzer on its own, called with every count
FetchInit ==
    /\ api_keys = << 1 >>
    /\ current_key_index = 0
    /\ analyzer_key = 1
    /\ video_cache = {}
    /\ api_calls_per_key = [i \in {0} |-> 0]
    /\ discovered_channels = {}
    /\ discovered_handles = {}
    /\ discovered_channel_ids = {}
    /\ csv_rows = Empty
    /\ target = 1
    /\ pc = "fetch"
    /\ kw = 0
    /\ matches_found = 0
    /\ search_items = Empty
    /\ channel_ids_seen = {}
    /\ channels_found = Empty
    /\ channels = Empty
    /\ channels_in_keyword = 0
    /\ outcome = "running"
    /\ returned = -1
    /\ done_reason = "none"
    /\ rotate_log = Empty
    /\ ev = IdleEv
    /\ OtherIdle

\* one call of get_channel_videos_with_stats(channel_id, max_results=count)
FetchItems ==
    /\ pc = "fetch"
    /\ \E channel_id \in {UC1} :
       \E count \in 1..MaxCount :
       \E so \in ItemSearchOutcomes(count) :
       \E do \in BatchDetailOutcomes(so.n) :
         LET fetch == GetChannelVideosWithStats(count, so, do)
         IN  /\ video_cache' = CacheVideos(video_cache, channel_id, fetch.videos)
             /\ ev' = [IdleEv EXCEPT
                      !.op = "fetch", !.id = channel_id, !.count = count,
                      !.search_kind = so.kind, !.search_nonempty = (so.n > 0),
                      !.detail_kind = IF fetch.detail_calls = 1 THEN do.kind ELSE "none",
                      !.items_search = fetch.search_calls,
                      !.batch_detail = fetch.detail_calls,
                      !.quota = fetch.quota, !.fetch_raised = fetch.raised,
                      !.qualifying = Qualifying(fetch.videos),
                      !.stage = "returned"]
    /\ UNCHANGED << api_keys, current_key_index, analyzer_key, api_calls_per_key,
                    discovered_channels, discovered_handles, discovered_channel_ids,
                    csv_rows, target, pc, kw, matches_found, search_items,
                    channel_ids_seen, channels_found, channels, channels_in_keyword,
                    outcome, returned, done_reason, rotate_log >>
    /\ UNCHANGED otherVars

FetchNext == FetchItems

FetchSpec == FetchInit /\ [][FetchNext]_vars

\* ------------------------------------------------- AIAnalyzer and the limiters
\* the last tick of the clock
MaxTime == 10
\* how far a sleep may run past the time asked for, in ticks
MaxOvershoot == 1
\* groq_delay_seconds = 1.5 s, in ticks of half a second
GroqDelaySeconds == 3
\* ai_delay_seconds, AI_DELAY_SECONDS defaulting to 2.0 s, in ticks of half a second
AiDelaySeconds == 4

\* what completion.choices[0].message.content can hold
ProviderContents ==
    { <<" ", "Y", "E", "S", "|", "a", "|", "b", " ">>,
      <<"N", "O", "|", "a", "|", "b">>,
      <<" ", " ">>,
      Empty }

\* what chat.completions.create can do: an answer with text, an answer whose
\* content is None, an exception
ProviderOutcomes ==
    { [kind |-> "ok", content |-> c] : c \in ProviderContents }
    \cup { [kind |-> "none_content", content |-> Empty],
           [kind |-> "exception", content |-> Empty] }

\* the Optional[str] the provider methods return
NoResponse == [is_none |-> TRUE, text |-> Empty, raised |-> FALSE]
SomeResponse(text) == [is_none |-> FALSE, text |-> text, raised |-> FALSE]

\* a provider method that lets the exception of the call out
CallProviderUncaught(out) ==
    IF out.kind = "ok" THEN SomeResponse(Strip(out.content))
    ELSE [is_none |-> TRUE, text |-> Empty, raised |-> TRUE]

\* _call_groq after its wait, and _call_openai: content.strip(), and None on
\* every exception, the AttributeError of None.strip() included
CallProvider(out) ==
    IF out.kind = "ok" THEN SomeResponse(Strip(out.content))
    ELSE NoResponse

\* "if response:" in _call_ai_api
Truthy(response) == ~response.is_none /\ response.text # Empty

\* a limiter that takes its timestamp before it sleeps
RateLimitStampFirst(current_time, last_call_time, delay, over) ==
    LET time_since_last_call == current_time - last_call_time
        sleep_time == IF time_since_last_call < delay
                      THEN delay - time_since_last_call ELSE 0
    IN  [returned |-> current_time + sleep_time + over,
         slept |-> sleep_time,
         last_call_time |-> current_time]

\* _ensure_ai_rate_limit: sleep for what is left of the delay, then take the
\* timestamp; over is what the sleep and the two clock reads add
EnsureAiRateLimit(current_time, last_call_time, delay, over) ==
    LET time_since_last_call == current_time - last_call_time
        sleep_time == IF time_since_last_call < delay
                      THEN delay - time_since_last_call ELSE 0
    IN  [returned |-> current_time + sleep_time + over,
         slept |-> sleep_time,
         last_call_time |-> current_time + sleep_time + over]

\* a Groq limiter that sleeps and leaves the timestamp to be taken after the call
GroqRateLimitNoStamp(current_time, last_call_time, delay, over) ==
    LET time_since_last_call == current_time - last_call_time
        sleep_time == IF time_since_last_call < delay
                      THEN delay - time_since_last_call ELSE 0
    IN  [returned |-> current_time + sleep_time + over,
         slept |-> sleep_time,
         last_call_time |-> last_call_time]

\* the head of _call_groq: the same wait on last_groq_call_time
GroqRateLimit(current_time, last_call_time, delay, over) ==
    LET time_since_last_call == current_time - last_call_time
        sleep_time == IF time_since_last_call < delay
                      THEN delay - time_since_last_call ELSE 0
    IN  [returned |-> current_time + sleep_time + over,
         slept |-> sleep_time,
         last_call_time |-> current_time + sleep_time + over]

\* the last two entries of a log
LastTwo(log) == IF Len(log) <= 2 THEN log ELSE SubSeq(log, Len(log) - 1, Len(log))

\* how often event e stands in a trace
Count(trace, e) == Cardinality({ i \in DOMAIN trace : trace[i].e = e })

\* _call_ai_api trying Groq a second time before it falls through
AfterGroqRetrying(response, trace, has_openai) ==
    IF response.raised THEN "raised"
    ELSE IF Truthy(response) THEN "returned"
    ELSE IF Count(trace, "groq") < 2 THEN "groq_limit"
    ELSE IF has_openai THEN "openai"
    ELSE "unavailable"

\* _call_ai_api after the Groq attempt: return a response that is not empty,
\* otherwise fall through to OpenAI when there is a client, else the placeholder
AfterGroq(response, trace, has_openai) ==
    IF response.raised THEN "raised"
    ELSE IF Truthy(response) THEN "returned"
    ELSE IF has_openai THEN "openai"
    ELSE "unavailable"

\* _call_ai_api after the OpenAI attempt
AfterOpenai(response) ==
    IF response.raised THEN "raised"
    ELSE IF Truthy(response) THEN "returned"
    ELSE "unavailable"

\* what analyze_content hands back at the end of the request
AiReturn(where, response) ==
    CASE where = "returned" -> [kind |-> "str", value |-> response.text]
      [] where = "unavailable" -> [kind |-> "str", value |-> Unavailable]
      [] where = "raised" -> [kind |-> "raise", value |-> Empty]
      [] OTHER -> [kind |-> "pending", value |-> Empty]

\* where a finished request stands
AiPcAfter(where) ==
    IF where \in {"returned", "unavailable", "raised"} THEN "returned" ELSE where

\* the discovery run is not part of the scenario
RunIdle ==
    /\ api_keys = << 1 >>
    /\ current_key_index = 0
    /\ analyzer_key = 1
    /\ video_cache = {}
    /\ api_calls_per_key = [i \in {0} |-> 0]
    /\ discovered_channels = {}
    /\ discovered_handles = {}
    /\ discovered_channel_ids = {}
    /\ csv_rows = Empty
    /\ target = 1
    /\ pc = "off"
    /\ kw = 0
    /\ matches_found = 0
    /\ search_items = Empty
    /\ channel_ids_seen = {}
    /\ channels_found = Empty
    /\ channels = Empty
    /\ channels_in_keyword = 0
    /\ outcome = "running"
    /\ returned = -1
    /\ done_reason = "none"
    /\ rotate_log = Empty
    /\ ev = IdleEv

\* an AIAnalyzer with any of the two clients, and a finder's limiter next to
\* it; the clock stands at 0 or past the longer delay
ClassifyInit ==
    /\ RunIdle
    /\ AppIdle
    /\ ParseIdle
    /\ WhisperIdle
    /\ groq_client \in BOOLEAN
    /\ openai_client \in BOOLEAN
    /\ now \in {0, AiDelaySeconds + 1}
    /\ last_groq_call_time = 0
    /\ last_ai_call_time = 0
    /\ ai_pc = "idle"
    /\ ai_trace = Empty
    /\ ai_result = AiReturn("idle", NoResponse)
    /\ wait_returns = [ai |-> Empty, groq |-> Empty]

\* one entry of ai_trace
AiEvent(e, out) ==
    [e |-> e, at |-> now', kind |-> out.kind, content |-> out.content,
     stamp |-> last_groq_call_time']

NoOutcome == [kind |-> "wait", content |-> Empty]

\* time passes, at any point of a request or between two
Tick ==
    /\ now < MaxTime
    /\ now' = now + 1
    /\ UNCHANGED << notAiVars, groq_client, openai_client,
                    last_groq_call_time, last_ai_call_time, ai_pc, ai_trace,
                    ai_result, wait_returns >>

\* process_channel_optimized calling _ensure_ai_rate_limit ahead of a request
EnsureAiRateLimitStep ==
    /\ ai_pc \in {"idle", "returned"}
    /\ \E over \in 0..MaxOvershoot :
       \E r \in {EnsureAiRateLimit(now, last_ai_call_time, AiDelaySeconds, over)} :
         /\ r.returned <= MaxTime
         /\ now' = r.returned
         /\ last_ai_call_time' = r.last_call_time
         /\ wait_returns' = [wait_returns EXCEPT
                               !.ai = LastTwo(Append(@, r.returned))]
    /\ UNCHANGED << notAiVars, groq_client, openai_client,
                    last_groq_call_time, ai_pc, ai_trace, ai_result >>

\* analyze_content -> _call_ai_api up to the first client it finds
AnalyzeContent ==
    /\ ai_pc \in {"idle", "returned"}
    /\ ai_trace' = Empty
    /\ ai_pc' = IF groq_client THEN "groq_limit"
                ELSE IF openai_client THEN "openai"
                ELSE "returned"
    /\ ai_result' = IF groq_client \/ openai_client
                    THEN AiReturn("pending", NoResponse)
                    ELSE AiReturn("unavailable", NoResponse)
    /\ UNCHANGED << notAiVars, groq_client, openai_client, now,
                    last_groq_call_time, last_ai_call_time, wait_returns >>

\* _call_groq: the wait and the timestamp ahead of the call
CallGroqWait ==
    /\ ai_pc = "groq_limit"
    /\ \E over \in 0..MaxOvershoot :
       \E r \in {GroqRateLimit(now, last_groq_call_time, GroqDelaySeconds, over)} :
         /\ r.returned <= MaxTime
         /\ now' = r.returned
         /\ last_groq_call_time' = r.last_call_time
         /\ wait_returns' = [wait_returns EXCEPT
                               !.groq = LastTwo(Append(@, r.returned))]
         /\ ai_trace' = Append(ai_trace, AiEvent("wait", NoOutcome))
    /\ ai_pc' = "groq"
    /\ UNCHANGED << notAiVars, groq_client, openai_client,
                    last_ai_call_time, ai_result >>

\* _call_groq: chat.completions.create, and _call_ai_api's test of the response
CallGroqCreate ==
    /\ ai_pc = "groq"
    /\ UNCHANGED << notAiVars, groq_client, openai_client, now,
                    last_groq_call_time, last_ai_call_time, wait_returns >>
    /\ \E out \in ProviderOutcomes :
       \E response \in {CallProvider(out)} :
         /\ ai_trace' = Append(ai_trace, AiEvent("groq", out))
         /\ \E where \in {AfterGroq(response, ai_trace', openai_client)} :
              /\ ai_pc' = AiPcAfter(where)
              /\ ai_result' = AiReturn(where, response)

\* _call_openai, and _call_ai_api's test of the response
CallOpenaiCreate ==
    /\ ai_pc = "openai"
    /\ UNCHANGED << notAiVars, groq_client, openai_client, now,
                    last_groq_call_time, last_ai_call_time, wait_returns >>
    /\ \E out \in ProviderOutcomes :
       \E response \in {CallProvider(out)} :
         /\ ai_trace' = Append(ai_trace, AiEvent("openai", out))
         /\ \E where \in {AfterOpenai(response)} :
              /\ ai_pc' = AiPcAfter(where)
              /\ ai_result' = AiReturn(where, response)

ClassifyNext ==
    \/ Tick
    \/ EnsureAiRateLimitStep
    \/ AnalyzeContent
    \/ CallGroqWait
    \/ CallGroqCreate
    \/ CallOpenaiCreate

ClassifySpec == ClassifyInit /\ [][ClassifyNext]_vars

\* ------------------------------------------------------------ niche parser
\* the longest response handed to the parser
MaxResponseLen == 6

\* the characters of a response: YES in both cases, the separator, a blank
\* and one other letter
ResponseAlphabet == {"Y", "y", "e", "S", "|", " ", "N"}

\* analyze_content is about to return a string
ParseInit ==
    /\ RunIdle
    /\ AppIdle
    /\ AiIdle
    /\ WhisperIdle
    /\ ai_response = << >>
    /\ niche = [parsed |-> FALSE, value |-> << >>]
    /\ duration = << >>
    /\ video_data = [parsed |-> FALSE, duration_seconds |-> 0, is_short |-> FALSE]

\* the string analyze_content returns, any string at all, one character more
ResponseChar ==
    /\ ~niche.parsed
    /\ Len(ai_response) < MaxResponseLen
    /\ \E ch \in ResponseAlphabet : ai_response' = Append(ai_response, ch)
    /\ UNCHANGED << notParseVars, niche, duration, video_data >>

\* the parse at the end of verify_niche_from_cached_videos
VerifyNicheParse ==
    /\ ~niche.parsed
    /\ niche' = [parsed |-> TRUE, value |-> ParseNiche(ai_response)]
    /\ UNCHANGED << notParseVars, ai_response, duration, video_data >>

ParseNext == ResponseChar \/ VerifyNicheParse

ParseSpec == ParseInit /\ [][ParseNext]_vars

\* -------------------------------------------------------- duration parser
\* the largest hours, minutes and seconds fields of a well-formed duration
MaxHours == 2
MaxMinutes == 2
MaxSeconds == 61
\* the longest duration built a character at a time
MaxDurationLen == 5
\* the threshold of is_short, in seconds
ShortSeconds == 60

DecimalDigits == << "0", "1", "2", "3", "4", "5", "6", "7", "8", "9" >>
\* the characters of such a duration
DurationAlphabet == {"P", "T", "H", "M", "S", "D", "1"}

\* what \d matches
IsDigit(ch) == \E i \in DOMAIN DecimalDigits : DecimalDigits[i] = ch

\* int() of a string of digits, the empty string standing for "or 0"
RECURSIVE ToInt(_)
ToInt(s) ==
    IF s = << >> THEN 0
    ELSE 10 * ToInt(SubSeq(s, 1, Len(s) - 1))
         + (CHOOSE i \in DOMAIN DecimalDigits : DecimalDigits[i] = s[Len(s)]) - 1

\* str() of a natural number
RECURSIVE Str(_)
Str(n) ==
    IF n < 10 THEN << DecimalDigits[n + 1] >>
    ELSE Str(n \div 10) \o << DecimalDigits[(n % 10) + 1] >>

\* a duration as the API writes it; a field below 0 is left out
FormatDuration(h, m, sec) ==
    << "P", "T" >>
    \o (IF h < 0 THEN << >> ELSE Str(h) \o << "H" >>)
    \o (IF m < 0 THEN << >> ELSE Str(m) \o << "M" >>)
    \o (IF sec < 0 THEN << >> ELSE Str(sec) \o << "S" >>)

\* the end of the digits \d+ takes from position pos on, greedily
RECURSIVE DigitsEnd(_, _)
DigitsEnd(s, pos) ==
    IF pos <= Len(s) /\ IsDigit(s[pos]) THEN DigitsEnd(s, pos + 1) ELSE pos

\* the optional group (?:(\d+)X)? tried at position pos: the digits it
\* captures (none when it does not take part) and where the match goes on
OptionalGroup(s, pos, letter) ==
    LET end == DigitsEnd(s, pos)
    IN  IF end > pos /\ end <= Len(s) /\ s[end] = letter
        THEN [group |-> SubSeq(s, pos, end - 1), next |-> end + 1]
        ELSE [group |-> << >>, next |-> pos]

\* re.match(r'PT(?:(\d+)H)?(?:(\d+)M)?(?:(\d+)S)?', duration): a match at
\* the start of the string, whatever follows it
ReMatch(s) ==
    IF ~StartsWith(s, << "P", "T" >>)
    THEN [matched |-> FALSE, groups |-> << >>, end |-> 0]
    ELSE LET h == OptionalGroup(s, 3, "H")
             m == OptionalGroup(s, h.next, "M")
             sec == OptionalGroup(s, m.next, "S")
         IN  [matched |-> TRUE, groups |-> << h.group, m.group, sec.group >>,
              end |-> sec.next - 1]

\* re.fullmatch in the place of re.match: the whole string has to fit
ReFullMatch(s) ==
    IF ReMatch(s).matched /\ ReMatch(s).end = Len(s) THEN ReMatch(s)
    ELSE [matched |-> FALSE, groups |-> << >>, end |-> 0]

\* _parse_duration with re.fullmatch
ParseDurationFullMatch(s) ==
    LET match == ReFullMatch(s)
    IN  IF ~match.matched THEN 0
        ELSE ToInt(match.groups[1]) * 3600 + ToInt(match.groups[2]) * 60
             + ToInt(match.groups[3])

\* _parse_duration
ParseDuration(s) ==
    LET match == ReMatch(s)
    IN  IF ~match.matched THEN 0
        ELSE ToInt(match.groups[1]) * 3600 + ToInt(match.groups[2]) * 60
             + ToInt(match.groups[3])

\* a video whose duration is still to be read: a well-formed duration, or
\* the start of any string
DurationInit ==
    /\ RunIdle
    /\ AppIdle
    /\ AiIdle
    /\ WhisperIdle
    /\ ai_response = << >>
    /\ niche = [parsed |-> FALSE, value |-> << >>]
    /\ duration \in {<< >>} \cup
                     { FormatDuration(h, m, sec) : h \in -1..MaxHours,
                         m \in -1..MaxMinutes, sec \in -1..MaxSeconds }
    /\ video_data = [parsed |-> FALSE, duration_seconds |-> 0, is_short |-> FALSE]

\* the duration string, any string at all, one character more
DurationChar ==
    /\ ~video_data.parsed
    /\ Len(duration) < MaxDurationLen
    /\ \E ch \in DurationAlphabet : duration' = Append(duration, ch)
    /\ UNCHANGED << notParseVars, ai_response, niche, video_data >>

\* _get_optimized_random_videos: duration_seconds and is_short of one video
ClassifyByDuration ==
    /\ ~video_data.parsed
    /\ \E duration_seconds \in {ParseDuration(duration)} :
         video_data' = [parsed |-> TRUE, duration_seconds |-> duration_seconds,
                        is_short |-> duration_seconds <= ShortSeconds]
    /\ UNCHANGED << notParseVars, ai_response, niche, duration >>

DurationNext == DurationChar \/ ClassifyByDuration

DurationSpec == DurationInit /\ [][DurationNext]_vars

\* ------------------------------------------------------- WhisperAPIServer
\* max_queue_size, the capacity Q the server is built with
MaxQueueSize == 2
\* the submissions of a scenario: enough to fill the queue and go past it
MaxSubmissions == MaxQueueSize + 1
\* len(self.results) > 100 starts the clean-up
ResultsLimit == 100
\* sorted(self.results.keys())[:50] are deleted
ResultsEvicted == 50

\* the clients of the service, one request at a time each: one that calls
\* transcribe_video_sync and one that calls transcribe_video_async
Submitters == {"sync", "async"}
\* two threads running _process_queue
TwoWorkerThreads == {"worker", "worker2"}
\* the one thread __init__ starts on _process_queue
WorkerThreads == {"worker"}
\* the values uuid4 can give, in the order sorted() puts them in
RequestIds == 1..MaxSubmissions
\* what self.whisper.transcribe_video can do: a text, None or "", an exception
TranscribeOutcomes == {"text", "empty", "raise"}
\* the same for a transcriber whose model cannot be loaded: _load_model raises,
\* transcribe_video returns None, or raises when its handler's empty_cache does
TranscribeOutcomesOf(transcriber) ==
    IF transcriber = "no_model" THEN TranscribeOutcomes \ {"text"}
    ELSE TranscribeOutcomes
\* __init__ got past "self.whisper = WhisperTranscriber(...)"
Serving == whisper \in {"ready", "no_model"}

IdleHandler ==
    [pc |-> "idle", kind |-> "none", id |-> 0, seen_qsize |-> 0, http |-> 0,
     status |-> "none", cause |-> "none", ret |-> "none", loaded |-> 0]

\* WhisperAPIClient.transcribe_video_sync: what it returns for a response
ClientSyncReturn(http, status) ==
    IF http = 200
    THEN IF status = "completed" THEN "transcript" ELSE "None"
    ELSE "None"

\* WhisperAPIClient.transcribe_video_async: what it returns for the status a
\* poll ends on, "processing" standing for the polls having run out
ClientAsyncReturn(http, status) ==
    IF http # 200 THEN "None"
    ELSE IF status = "completed" THEN "transcript"
    ELSE "None"

\* the status get_result and transcribe_sync report for a stored result
ResultStatus(result) == IF result.success THEN "completed" ELSE "failed"

\* a capacity check that lets one request too many through
QueueFullPastCapacity(qsize) == qsize > MaxQueueSize

\* "if self.request_queue.qsize() >= self.max_queue_size"
QueueFull(qsize) == qsize >= MaxQueueSize

\* Queue.get: the oldest request
QueueGet(queue) == [req |-> Head(queue), rest |-> Tail(queue)]

\* the n smallest of the keys, sorted(keys)[:n]
SortedFirst(keys, n) == { k \in keys : Cardinality({ j \in keys : j < k }) < n }

\* a clean-up that starts one result later
StoreResultLateCleanup(store, id, result) ==
    LET stored == [i \in DOMAIN store \cup {id} |->
                      IF i = id THEN result ELSE store[i]]
    IN  IF Cardinality(DOMAIN stored) > ResultsLimit + 1
        THEN [i \in DOMAIN stored \ SortedFirst(DOMAIN stored, ResultsEvicted) |->
                 stored[i]]
        ELSE stored

\* self.results[req.request_id] = result, then the clean-up of old results
StoreResult(store, id, result) ==
    LET stored == [i \in DOMAIN store \cup {id} |->
                      IF i = id THEN result ELSE store[i]]
    IN  IF Cardinality(DOMAIN stored) > ResultsLimit
        THEN [i \in DOMAIN stored \ SortedFirst(DOMAIN stored, ResultsEvicted) |->
                 stored[i]]
        ELSE stored

\* the submissions made so far, turned down or taken
Rejections == { n \in DOMAIN whisper_log : whisper_log[n].e = "reject" }
Submissions == Cardinality(used_ids) + Cardinality(Rejections)

WhisperEvent(e, id, qsize) == [e |-> e, id |-> id, qsize |-> qsize]

\* WhisperAPIServer.__init__: an empty queue, no results, the worker started
WhisperInit ==
    /\ RunIdle
    /\ AppIdle
    /\ AiIdle
    /\ ParseIdle
    /\ request_queue = << >>
    /\ results = << >>
    /\ processing_stats = [total_requests |-> 0, completed |-> 0, failed |-> 0]
    /\ worker = [w \in WorkerThreads |-> [pc |-> "get", req |-> 0]]
    /\ handlers = [h \in Submitters |-> IdleHandler]
    /\ used_ids = {}
    /\ whisper_log = << >>
    /\ poll_log = << >>
    /\ whisper = "ready"

\* transcribe_video and transcribe_sync up to the request: the capacity check,
\* the 503 when the queue is full, else a request with a fresh id
SubmitCheck(h) ==
    /\ Serving
    /\ handlers[h].pc \in {"idle", "done"}
    /\ Submissions < MaxSubmissions
    /\ IF QueueFull(Len(request_queue))
       THEN /\ handlers' = [handlers EXCEPT ![h] =
                  [pc |-> "done", kind |-> h, id |-> 0,
                   seen_qsize |-> Len(request_queue), http |-> 503,
                   status |-> "error", cause |-> "queue_full",
                   ret |-> IF h = "sync" THEN ClientSyncReturn(503, "error")
                           ELSE ClientAsyncReturn(503, "error")]]
            /\ whisper_log' = Append(whisper_log,
                                     WhisperEvent("reject", 0, Len(request_queue)))
            /\ used_ids' = used_ids
       ELSE \E id \in RequestIds \ used_ids :
            /\ handlers' = [handlers EXCEPT ![h] =
                  [IdleHandler EXCEPT !.pc = "put", !.kind = h, !.id = id,
                                      !.seen_qsize = Len(request_queue)]]
            /\ used_ids' = used_ids \cup {id}
            /\ whisper_log' = whisper_log
    /\ UNCHANGED << notWhisperVars, poll_log, whisper, request_queue, results, processing_stats, worker >>

\* request_queue.put, which waits while the queue is full, the counters, and
\* the answer of transcribe_video or the start of transcribe_sync's wait
SubmitPut(h) ==
    /\ Serving
    /\ handlers[h].pc = "put"
    /\ Len(request_queue) < MaxQueueSize
    /\ request_queue' = Append(request_queue, handlers[h].id)
    /\ processing_stats' = [processing_stats EXCEPT !.total_requests = @ + 1]
    /\ whisper_log' = Append(whisper_log,
                             WhisperEvent("enq", handlers[h].id, handlers[h].seen_qsize))
    /\ handlers' = [handlers EXCEPT ![h].pc =
                       IF handlers[h].kind = "sync" THEN "wait" ELSE "poll",
                                    ![h].http = 200, ![h].status = "queued"]
    /\ UNCHANGED << notWhisperVars, poll_log, whisper, results, worker, used_ids >>

\* transcribe_sync's loop finding the result, and the client's return
SyncResult(h) ==
    /\ Serving
    /\ handlers[h].pc = "wait"
    /\ handlers[h].id \in DOMAIN results
    /\ LET status == ResultStatus(results[handlers[h].id])
       IN  handlers' = [handlers EXCEPT ![h].pc = "done", ![h].http = 200,
                           ![h].status = status, ![h].cause = status,
                           ![h].ret = ClientSyncReturn(200, status)]
    /\ UNCHANGED << notWhisperVars, poll_log, whisper, request_queue, results, processing_stats,
                    worker, used_ids, whisper_log >>

\* transcribe_sync's loop running out of time: 408, and the client's return
SyncTimeout(h) ==
    /\ Serving
    /\ handlers[h].pc = "wait"
    /\ handlers' = [handlers EXCEPT ![h].pc = "done", ![h].http = 408,
                       ![h].status = "timeout", ![h].cause = "timeout",
                       ![h].ret = ClientSyncReturn(408, "timeout")]
    /\ UNCHANGED << notWhisperVars, poll_log, whisper, request_queue, results, processing_stats,
                    worker, used_ids, whisper_log >>

\* transcribe_video_async: a poll of get_result that finds the result
AsyncResult(h) ==
    /\ Serving
    /\ handlers[h].pc = "poll"
    /\ handlers[h].id \in DOMAIN results
    /\ LET status == ResultStatus(results[handlers[h].id])
       IN  handlers' = [handlers EXCEPT ![h].pc = "done", ![h].http = 200,
                           ![h].status = status, ![h].cause = status,
                           ![h].ret = ClientAsyncReturn(200, status)]
    /\ UNCHANGED << notWhisperVars, poll_log, whisper, request_queue, results, processing_stats,
                    worker, used_ids, whisper_log >>

\* transcribe_video_async: max_polls polls all answered "processing"
AsyncTimeout(h) ==
    /\ Serving
    /\ handlers[h].pc = "poll"
    /\ handlers' = [handlers EXCEPT ![h].pc = "done", ![h].http = 200,
                       ![h].status = "processing", ![h].cause = "timeout",
                       ![h].ret = ClientAsyncReturn(200, "processing")]
    /\ UNCHANGED << notWhisperVars, poll_log, whisper, request_queue, results, processing_stats,
                    worker, used_ids, whisper_log >>

\* _process_queue: request_queue.get hands over a request
WorkerGet(w) ==
    /\ Serving
    /\ worker[w].pc = "get"
    /\ request_queue # << >>
    /\ \E got \in {QueueGet(request_queue)} :
         /\ request_queue' = got.rest
         /\ worker' = [worker EXCEPT ![w] = [pc |-> "transcribe", req |-> got.req]]
         /\ whisper_log' = Append(whisper_log,
                                  WhisperEvent("start", got.req, Len(got.rest)))
    /\ UNCHANGED << notWhisperVars, poll_log, whisper, results, processing_stats, handlers, used_ids >>

\* _process_queue: transcribe_video returns or raises; the result is stored and
\* old results are cleaned up, or the exception is logged and nothing is stored
WorkerFinish(w) ==
    /\ Serving
    /\ worker[w].pc = "transcribe"
    /\ worker' = [worker EXCEPT ![w] = [pc |-> "get", req |-> 0]]
    /\ \E out \in TranscribeOutcomesOf(whisper) :
         CASE out = "text" ->
                /\ results' = StoreResult(results, worker[w].req,
                                          [success |-> TRUE, error |-> "none"])
                /\ processing_stats' = [processing_stats EXCEPT !.completed = @ + 1]
                /\ whisper_log' = Append(whisper_log,
                                         WhisperEvent("store", worker[w].req, 0))
           [] out = "empty" ->
                /\ results' = StoreResult(results, worker[w].req,
                                          [success |-> FALSE,
                                           error |-> "Transcription failed"])
                /\ processing_stats' = [processing_stats EXCEPT !.failed = @ + 1]
                /\ whisper_log' = Append(whisper_log,
                                         WhisperEvent("store", worker[w].req, 0))
           [] out = "raise" ->
                /\ whisper_log' = Append(whisper_log,
                                         WhisperEvent("drop", worker[w].req, 0))
                /\ UNCHANGED << results, processing_stats >>
    /\ UNCHANGED << notWhisperVars, poll_log, whisper, request_queue, handlers, used_ids >>

WhisperNext ==
    \/ \E h \in Submitters : SubmitCheck(h)
    \/ \E h \in Submitters : SubmitPut(h)
    \/ \E h \in Submitters : SyncResult(h)
    \/ \E h \in Submitters : SyncTimeout(h)
    \/ \E h \in Submitters : AsyncResult(h)
    \/ \E h \in Submitters : AsyncTimeout(h)
    \/ \E w \in WorkerThreads : WorkerGet(w)
    \/ \E w \in WorkerThreads : WorkerFinish(w)

WhisperSpec == WhisperInit /\ [][WhisperNext]_vars

\* the worker thread loops for as long as the process lives: a request it can
\* take is taken, and a transcription it has begun returns or raises
WhisperLiveSpec ==
    /\ WhisperInit
    /\ [][WhisperNext]_vars
    /\ WF_vars(\E w \in WorkerThreads : WorkerGet(w))
    /\ WF_vars(\E w \in WorkerThreads : WorkerFinish(w))

\* WhisperAPIServer.__init__ when transcription is not available: either
\* WhisperTranscriber(...) raises and __init__ raises it again, so that there
\* is no server, or it returns a transcriber whose model will not load
DegradedInit ==
    /\ RunIdle
    /\ AppIdle
    /\ AiIdle
    /\ ParseIdle
    /\ whisper \in {"init_raised", "no_model"}
    /\ request_queue = << >>
    /\ results = << >>
    /\ processing_stats =
          IF Serving THEN [total_requests |-> 0, completed |-> 0, failed |-> 0]
          ELSE << >>
    /\ worker = IF Serving THEN [w \in WorkerThreads |-> [pc |-> "get", req |-> 0]]
                ELSE << >>
    /\ handlers = IF Serving THEN [h \in Submitters |-> IdleHandler] ELSE << >>
    /\ used_ids = {}
    /\ whisper_log = << >>
    /\ poll_log = << >>

DegradedSpec == DegradedInit /\ [][WhisperNext]_vars

\* ------------------------------------- the results store near its clean-up
\* the results the worker still has to store once the store is nearly full
MaxNewResults == 2
\* the request ids of such a run, in the order sorted() puts them in
StoredIds == 1..(ResultsLimit - 1 + MaxNewResults)

\* an order in which uuid4 can have handed out the ids: sorted order or its
\* reverse, begun r places in
InsertionOrder(descending, r) ==
    [i \in 1..Cardinality(StoredIds) |->
        LET id == ((i + r - 1) % Cardinality(StoredIds)) + 1
        IN  IF descending THEN Cardinality(StoredIds) + 1 - id ELSE id]

\* what the log holds of a request that was queued, run and stored
StoredEvents(id) ==
    << WhisperEvent("enq", id, 0), WhisperEvent("start", id, 0),
       WhisperEvent("store", id, 0) >>

RECURSIVE StoredLog(_, _)
StoredLog(order, n) ==
    IF n = 0 THEN << >> ELSE StoredLog(order, n - 1) \o StoredEvents(order[n])

\* the server after ResultsLimit - 1 requests went through one by one, with
\* MaxNewResults more taken: the first with the worker, the others queued
StoreInit ==
    /\ RunIdle
    /\ AppIdle
    /\ AiIdle
    /\ ParseIdle
    /\ \E descending \in BOOLEAN, r \in 0..(Cardinality(StoredIds) - 1),
          swapped \in BOOLEAN :
         \E order \in {InsertionOrder(descending, r)} :
         \E first \in {IF swapped THEN order[Len(order)] ELSE order[ResultsLimit]} :
         \E queued \in {SelectSeq(SubSeq(order, ResultsLimit, Len(order)),
                                  LAMBDA id : id # first)} :
           /\ request_queue = queued
           /\ results = [id \in {order[i] : i \in 1..(ResultsLimit - 1)} |->
                            [success |-> TRUE, error |-> "none"]]
           /\ processing_stats = [total_requests |-> Len(order),
                                  completed |-> ResultsLimit - 1, failed |-> 0]
           /\ worker = [w \in WorkerThreads |-> [pc |-> "transcribe", req |-> first]]
           /\ handlers = [h \in Submitters |-> IdleHandler]
           /\ used_ids = StoredIds
           /\ whisper_log =
                 StoredLog(order, ResultsLimit - 1)
                 \o << WhisperEvent("enq", first, 0), WhisperEvent("start", first, 0) >>
                 \o [i \in 1..Len(queued) |-> WhisperEvent("enq", queued[i], i - 1)]
           /\ poll_log = << >>
           /\ whisper = "ready"

\* the polls of a scenario
MaxPolls == 2
\* the requests whose results are asked for: the first and the last in sorted order
PolledIds == {1, Cardinality(StoredIds)}

\* get_result's answer for a request id: "processing" when the id is not in
\* self.results, else the stored result's status
GetResultStatus(store, request_id) ==
    IF request_id \notin DOMAIN store THEN "processing"
    ELSE ResultStatus(store[request_id])

\* GET /result/<request_id>
GetResult(request_id) ==
    /\ Len(poll_log) < MaxPolls
    /\ poll_log' = Append(poll_log, [id |-> request_id,
                                     status |-> GetResultStatus(results, request_id)])
    /\ UNCHANGED << notWhisperVars, request_queue, results, processing_stats,
                    worker, handlers, used_ids, whisper_log, whisper >>

StoreNext ==
    \/ \E w \in WorkerThreads : WorkerGet(w)
    \/ \E w \in WorkerThreads : WorkerFinish(w)
    \/ \E request_id \in PolledIds : GetResult(request_id)

StoreSpec == StoreInit /\ [][StoreNext]_vars

\* --------------------------------------------- the web app's key manager
\* the analyses a user asks for in a session
MaxAnalyses == 2
\* YOUTUBE_API_KEY is slot 1, YOUTUBE_API_KEY_<i> is slot i
EnvSlots == 1..(MaxKeys + 1)

\* the secondary keys: YOUTUBE_API_KEY_2, _3, ... up to the first one not set
RECURSIVE SecondaryKeys(_, _)
SecondaryKeys(env, i) ==
    IF i \in env THEN << i >> \o SecondaryKeys(env, i + 1) ELSE << >>

\* _load_api_keys up to its return: the primary key when set, then the
\* secondary keys (the same lines in app.py and in the discovery script)
LoadApiKeys(env) ==
    (IF 1 \in env THEN << 1 >> ELSE << >>) \o SecondaryKeys(env, 2)

\* a loader that hands on an empty list
FinderLoadApiKeysUnchecked(env) ==
    [raised |-> FALSE, api_keys |-> LoadApiKeys(env)]

\* OptimizedMultiAPIKeyFinder._load_api_keys: ValueError on an empty list
FinderLoadApiKeys(env) ==
    [raised |-> LoadApiKeys(env) = << >>, api_keys |-> LoadApiKeys(env)]

\* MultiAPIManager.__init__
NewApiManager(env) ==
    [api_keys |-> LoadApiKeys(env), current_key_index |-> 0,
     api_calls_per_key |-> [i \in 0..(Len(LoadApiKeys(env)) - 1) |-> 0]]

\* MultiAPIManager.get_current_key: None, written 0, without keys
GetCurrentKey(manager) ==
    IF manager.api_keys = << >> THEN 0
    ELSE manager.api_keys[manager.current_key_index + 1]

\* MultiAPIManager.track_api_usage
AppTrackApiUsage(manager) ==
    [manager EXCEPT !.api_calls_per_key[manager.current_key_index] = @ + 1]

\* MultiAPIManager.switch_to_next_key: the value returned and the manager after
SwitchToNextKey(manager) ==
    IF Len(manager.api_keys) <= 1
    THEN [ret |-> FALSE, manager |-> manager]
    ELSE [ret |-> TRUE,
          manager |-> [manager EXCEPT !.current_key_index =
                          (manager.current_key_index + 1) % Len(manager.api_keys)]]

\* a retry loop that allows one more turn than there are keys
MaxRetriesOneMore(manager) == Len(manager.api_keys) + 1

\* "max_retries = len(api_manager.api_keys)"
MaxRetries(manager) == Len(manager.api_keys)

\* what one turn of main's retry loop can meet: channel data, no data, an
\* HttpError with the quota signal, another HttpError, another exception
\* whose text holds "quota" or "limit", any other exception
AttemptOutcomes == {"data", "none", "quota", "http_error", "quota_text", "error"}

AppInit ==
    /\ RunIdle
    /\ AiIdle
    /\ ParseIdle
    /\ WhisperIdle
    /\ environ \in SUBSET EnvSlots
    /\ api_manager = << >>
    /\ app_pc = "start"
    /\ retry_count = 0
    /\ analyses = 0
    /\ app_log = << >>
    /\ finder = [status |-> "none", api_keys |-> << >>]

\* "st.session_state.api_manager = MultiAPIManager()"
AppConstruct ==
    /\ app_pc = "start"
    /\ api_manager' = NewApiManager(environ)
    /\ app_pc' = "main"
    /\ UNCHANGED << notAppVars, environ, retry_count, analyses, app_log, finder >>

\* main() up to the retry loop: without a current key the error is shown and
\* main returns; else the user asks for an analysis
AppMain ==
    /\ app_pc = "main"
    /\ IF GetCurrentKey(api_manager) = 0
       THEN /\ app_pc' = "no_keys"
            /\ UNCHANGED << retry_count, analyses >>
       ELSE /\ analyses < MaxAnalyses
            /\ app_pc' = "analyze"
            /\ retry_count' = 0
            /\ analyses' = analyses + 1
    /\ UNCHANGED << notAppVars, environ, api_manager, app_log, finder >>

\* one turn of "while retry_count < max_retries and not channel_data"
AppAttempt ==
    /\ app_pc = "analyze"
    /\ retry_count < MaxRetries(api_manager)
    /\ \E out \in AttemptOutcomes :
         LET call == [op |-> "call", key |-> GetCurrentKey(api_manager),
                      analysis |-> analyses,
                      from |-> api_manager.current_key_index,
                      to |-> api_manager.current_key_index, ret |-> FALSE,
                      at_last |-> FALSE]
             tracked == IF out \in {"data", "none", "quota", "http_error"}
                        THEN AppTrackApiUsage(api_manager) ELSE api_manager
             switched == SwitchToNextKey(tracked)
             switch == [op |-> "switch", key |-> 0, analysis |-> analyses,
                        from |-> tracked.current_key_index,
                        to |-> switched.manager.current_key_index,
                        ret |-> switched.ret,
                        at_last |-> (tracked.current_key_index
                                     = Len(tracked.api_keys) - 1)]
         IN  IF out \in {"quota", "quota_text"}
             THEN /\ retry_count' = retry_count + 1
                  /\ api_manager' = switched.manager
                  /\ app_log' = app_log \o << call, switch >>
                  /\ app_pc' = IF switched.ret THEN "analyze" ELSE "main"
             ELSE /\ retry_count' = retry_count
                  /\ api_manager' = tracked
                  /\ app_log' = Append(app_log, call)
                  /\ app_pc' = "main"
    /\ UNCHANGED << notAppVars, environ, analyses, finder >>

\* the loop ends with every retry used: "Could not analyze the channel with
\* any API key"
AppLoopExit ==
    /\ app_pc = "analyze"
    /\ retry_count >= MaxRetries(api_manager)
    /\ app_pc' = "main"
    /\ UNCHANGED << notAppVars, environ, api_manager, retry_count, analyses,
                    app_log, finder >>

\* the discovery script's main(): OptimizedMultiAPIKeyFinder() raises the
\* loader's ValueError, which main logs as fatal, or the finder is built
FinderMain ==
    /\ finder.status = "none"
    /\ \E loaded \in {FinderLoadApiKeys(environ)} :
         finder' = [status |-> IF loaded.raised THEN "ValueError" ELSE "constructed",
                    api_keys |-> loaded.api_keys]
    /\ UNCHANGED << notAppVars, environ, api_manager, app_pc, retry_count,
                    analyses, app_log >>

AppNext ==
    \/ AppConstruct
    \/ AppMain
    \/ AppAttempt
    \/ AppLoopExit
    \/ FinderMain

AppSpec == AppInit /\ [][AppNext]_vars

\* ----------------------------------- the service's counters, step by step
\* "self.request_queue.put(transcription_request)" alone, which waits while
\* the queue is full
QueuePut(h) ==
    /\ Serving
    /\ handlers[h].pc = "put"
    /\ Len(request_queue) < MaxQueueSize
    /\ request_queue' = Append(request_queue, handlers[h].id)
    /\ whisper_log' = Append(whisper_log,
                             WhisperEvent("enq", handlers[h].id, handlers[h].seen_qsize))
    /\ handlers' = [handlers EXCEPT ![h].pc = "load"]
    /\ UNCHANGED << notWhisperVars, poll_log, whisper, results, processing_stats,
                    worker, used_ids >>

\* "self.processing_stats['total_requests'] += 1", first half: the handler's
\* thread reads the counter
TotalRequestsLoad(h) ==
    /\ Serving
    /\ handlers[h].pc = "load"
    /\ handlers' = [handlers EXCEPT ![h].pc = "store",
                                    ![h].loaded = processing_stats.total_requests]
    /\ UNCHANGED << notWhisperVars, poll_log, whisper, request_queue, results,
                    processing_stats, worker, used_ids, whisper_log >>

\* second half: the thread writes what it read plus one, then the answer of
\* transcribe_video or the start of transcribe_sync's wait
TotalRequestsStore(h) ==
    /\ Serving
    /\ handlers[h].pc = "store"
    /\ processing_stats' = [processing_stats EXCEPT
                               !.total_requests = handlers[h].loaded + 1]
    /\ handlers' = [handlers EXCEPT ![h].pc =
                       IF handlers[h].kind = "sync" THEN "wait" ELSE "poll",
                                    ![h].http = 200, ![h].status = "queued"]
    /\ UNCHANGED << notWhisperVars, poll_log, whisper, request_queue, results,
                    worker, used_ids, whisper_log >>

\* the service with the handlers' threads taken statement by statement
StatsNext ==
    \/ \E h \in Submitters : SubmitCheck(h)
    \/ \E h \in Submitters : QueuePut(h)
    \/ \E h \in Submitters : TotalRequestsLoad(h)
    \/ \E h \in Submitters : TotalRequestsStore(h)
    \/ \E h \in Submitters : SyncResult(h)
    \/ \E h \in Submitters : SyncTimeout(h)
    \/ \E h \in Submitters : AsyncResult(h)
    \/ \E h \in Submitters : AsyncTimeout(h)
    \/ \E w \in WorkerThreads : WorkerGet(w)
    \/ \E w \in WorkerThreads : WorkerFinish(w)

StatsSpec == WhisperInit /\ [][StatsNext]_vars

\* the two programs with a pool of keys: a discovery run, or a session of the
\* web app
PoolInit == Init \/ AppInit

PoolNext ==
    \/ pc # "off" /\ Next
    \/ app_pc # "off" /\ AppNext

PoolSpec == PoolInit /\ [][PoolNext]_vars

\* ------------------------------------------------------------------ claims

\* C1: whenever a quota-bounded fetch step (keyword search, channel-profile
\* fetch or channel-items fetch) fails with the quota signal while an unused
\* credential remains, the run rotates to the next credential, rebuilds the
\* fetch client on it and retries that same step, and the candidate is not
\* dropped because of the quota failure.
C1_QuotaRotatesAndRetries ==
    (ev.quota /\ ev.key_before + 1 < Len(api_keys)) =>
        /\ ev.rotated
        /\ ev.retried
        /\ current_key_index = ev.key_before + 1
        /\ analyzer_key = api_keys[current_key_index + 1]
        /\ ev.stage = "retry"

\* C2: in a pool of len >= 2 keys, starting from index 0, the k-th call of
\* switch_to_next_api_key starts at index k-1; each of the first len-1 calls
\* succeeds and raises the index by one, and the len-th call fails.
C2_RotateSucceedsUntilLast ==
    Len(api_keys) >= 2 =>
        \A k \in DOMAIN rotate_log :
            /\ rotate_log[k].before = k - 1
            /\ k <= Len(api_keys) - 1 =>
                  (rotate_log[k].ok /\ rotate_log[k].after = rotate_log[k].before + 1)
            /\ k = Len(api_keys) => ~rotate_log[k].ok
            /\ k <= Len(api_keys)

\* C2 witness: a pool of at least two keys on which len calls were made, the
\* last of them failing after len-1 successes.
C2_Witness ==
    /\ Len(api_keys) >= 2
    /\ Len(rotate_log) = Len(api_keys)
    /\ rotate_log[1].ok
    /\ ~rotate_log[Len(api_keys)].ok

\* C3: in every reachable state of a run with a non-empty pool,
\* 0 <= current_key_index < len(api_keys), also after a rotation has failed.
C3_IndexInRange ==
    Len(api_keys) >= 1 =>
        (0 <= current_key_index /\ current_key_index < Len(api_keys))

\* C4: when a rotation fails for want of a further credential, the run ends
\* without crashing, nothing more can be issued, and the value returned is the
\* count of accepted candidates, which is the number of rows written.
C4_ExhaustionReturnsPartialCount ==
    done_reason = "exhausted" =>
        /\ pc = "done"
        /\ outcome = "returned"
        /\ returned = matches_found
        /\ returned = Len(csv_rows)
        /\ ev.profile = 0 /\ ev.items_search = 0 /\ ev.batch_detail = 0
        /\ ev.classify = 0
        /\ ~ENABLED Next

\* C4 witness: the pool ran out after a candidate had been accepted.
C4_Witness ==
    /\ done_reason = "exhausted"
    /\ outcome = "returned"
    /\ returned >= 1
    /\ ~rotate_log[Len(rotate_log)].ok

\* C5 as stated: every call of get_channel_videos_with_stats issues exactly
\* two API calls, one search and one batch-detail call, whatever the count
\* and the outcome of the search.
C5_ExactlyTwoCalls ==
    ev.op = "fetch" => (ev.items_search = 1 /\ ev.batch_detail = 1)

\* C5 amended: for every count in 1..50 a call issues exactly one search call
\* and at most one batch-detail call; the batch-detail call is issued exactly
\* when the search succeeded and returned at least one item.
C5_SearchThenOneBatch ==
    ev.op = "fetch" =>
        /\ ev.count \in 1..MaxCount
        /\ ev.items_search = 1
        /\ ev.batch_detail =
              (IF ev.search_kind = "ok" /\ ev.search_nonempty THEN 1 ELSE 0)
        /\ ev.items_search + ev.batch_detail <= 2

\* C5 witness: a call with the largest count whose search came back with
\* items (two calls), the count being more than one.
C5_Witness ==
    /\ ev.op = "fetch"
    /\ ev.count = MaxCount
    /\ ev.search_kind = "ok" /\ ev.search_nonempty
    /\ ev.items_search = 1 /\ ev.batch_detail = 1
    /\ ev.qualifying >= MinVideosWithMinViews

\* C6: if either API call of get_channel_videos_with_stats fails with the
\* quota signal, the call raises a quota-exceeded error to its caller and
\* returns no list.
C6_QuotaIsRaised ==
    (ev.op = "fetch" /\ ev.quota) => ev.fetch_raised = "QuotaExceeded"

\* C7: between the start of process_channel_optimized and its decision at
\* most one items-search call, one batch-detail call and one classify call are
\* made, no other fetch call is made, and a classification is made only on
\* items that were fetched by those two calls.
C7_OneFetchOneClassify ==
    ev.op = "process" =>
        /\ ev.items_search <= 1
        /\ ev.batch_detail <= 1
        /\ ev.classify <= 1
        /\ ev.keyword_search = 0
        /\ ev.profile = 0
        /\ ev.classify = 1 => (ev.items_search = 1 /\ ev.batch_detail = 1)

\* C7 witness: a candidate taken through to acceptance on one search, one
\* batch and one classify call.
C7_Witness ==
    /\ ev.op = "process"
    /\ ev.stage = "accepted"
    /\ ev.items_search = 1 /\ ev.batch_detail = 1 /\ ev.classify = 1

\* C8: a candidate whose fetched items hold fewer than
\* min_videos_with_min_views items with at least min_views_per_video views is
\* rejected with no rate-limiter wait and no classification call.
C8_LowViewsRejectedUnclassified ==
    (ev.op = "process" /\ ev.items_search = 1
        /\ ev.qualifying < MinVideosWithMinViews) =>
        /\ ~ev.ret
        /\ ~ev.saved
        /\ ev.rate_wait = 0
        /\ ev.classify = 0

\* C8 witness: a candidate one qualifying item short of the threshold, with
\* eight items fetched, rejected by the views filter.
C8_Witness ==
    /\ ev.op = "process"
    /\ ev.stage = "low_views"
    /\ ev.qualifying = MinVideosWithMinViews - 1
    /\ ev.classify = 0 /\ ev.rate_wait = 0

\* C9 as stated: a search result whose channel's resolved handle, lowercased
\* and '@'-stripped, is in the registry is skipped with no profile-detail call
\* and no classification call.
C9_RegisteredHandleNoProfileCall ==
    (ev.op = "scan" /\ NormalizedHandle[ev.id] \in discovered_handles) =>
        (ev.profile = 0 /\ ev.classify = 0 /\ ~ev.appended)

\* C9 amended: such a search result is never added to the keyword's channels
\* and never processed, so no items fetch and no classification is made for
\* it; at most one profile-detail call is made for it, and none when the
\* search result's channel title, normalised the same way, is in the registry.
C9_RegisteredHandleNeverProcessed ==
    /\ (ev.op = "scan" /\ NormalizedHandle[ev.id] \in discovered_handles) =>
          /\ ~ev.appended
          /\ ev.classify = 0 /\ ev.items_search = 0 /\ ev.batch_detail = 0
          /\ ev.profile <= 1
          /\ NormalizedTitle[ev.id] \in discovered_handles => ev.profile = 0
    /\ \A i \in DOMAIN channels_found :
          NormalizedHandle[channels_found[i].channel_id] \notin discovered_handles
    /\ \A i \in DOMAIN channels :
          NormalizedHandle[channels[i].channel_id] \notin discovered_handles
    /\ ev.op = "process" => NormalizedHandle[ev.id] \notin discovered_handles

\* C9 witness: a registered handle met in a search result whose title is not
\* in the registry: the profile was fetched, then the channel was skipped.
C9_Witness ==
    /\ ev.op = "scan"
    /\ NormalizedHandle[ev.id] \in discovered_handles
    /\ NormalizedTitle[ev.id] \notin discovered_handles
    /\ ev.profile = 1
    /\ ev.stage = "registry_post"

\* C10: at most one row is written per channel id; an accepted channel's row
\* is appended once and its id is in discovered_channels; and no later search
\* result or processing step for a discovered id writes a row or issues a
\* profile, items or classification call.
C10_OneRecordPerChannel ==
    /\ \A i, j \in DOMAIN csv_rows : csv_rows[i] = csv_rows[j] => i = j
    /\ { csv_rows[i] : i \in DOMAIN csv_rows } = discovered_channels
    /\ (ev.op = "process" /\ ev.saved) =>
          (~ev.was_discovered /\ csv_rows[Len(csv_rows)] = ev.id)
    /\ ev.was_discovered =>
          /\ ev.profile = 0 /\ ev.items_search = 0 /\ ev.batch_detail = 0
          /\ ev.classify = 0
          /\ ~ev.saved /\ ~ev.appended

\* C10 witness: an accepted channel came back in a later search result and
\* was passed over.
C10_Witness ==
    /\ ev.op = "scan"
    /\ ev.was_discovered
    /\ ev.id \in discovered_channels
    /\ Len(csv_rows) >= 1
    /\ ev.profile = 0

\* ---------------------------------------------------------------------------
\* C11: the discovery run always ends, whatever the API calls do, and once it
\* has ended the accepted count has reached the target, or every keyword has
\* been taken from the list, or the last rotation found the pool exhausted.
C11_RunTerminates ==
    <>[](/\ pc = "done"
         /\ \/ matches_found >= target
            \/ kw >= NumKeywords
            \/ /\ rotate_log # Empty
               /\ ~rotate_log[Len(rotate_log)].ok
               /\ current_key_index >= Len(api_keys))

\* C11 witness: a run that met a quota error and a rotation, went on, and ended
\* with the keyword list consumed below the target.
C11_Witness ==
    /\ pc = "done"
    /\ done_reason = "queries"
    /\ kw = NumKeywords
    /\ matches_found < target
    /\ rotate_log # Empty


\* ---------------------------------------------------------------------------
\* a provider attempt of the trace that gave a usable answer: the call returned
\* and its text holds a character that is not white space
Succeeded(event) ==
    /\ event.e \in {"groq", "openai"}
    /\ event.kind = "ok"
    /\ \E i \in DOMAIN event.content : event.content[i] # " "

Attempts(e) == { k \in DOMAIN ai_trace : ai_trace[k].e = e }

\* C12: analyze_content never raises: whatever the two providers do (answer,
\* exception, empty answer, no client) the finished request has returned a
\* string, and the placeholder when no attempt gave a usable answer.
C12_ClassifyNeverRaises ==
    /\ ai_result.kind # "raise"
    /\ ai_pc = "returned" =>
          /\ ai_result.kind = "str"
          /\ ai_result.value # Empty
          /\ (\A k \in DOMAIN ai_trace : ~Succeeded(ai_trace[k])) =>
                 ai_result.value = Unavailable

\* C12 witness: both clients are there, Groq raised, OpenAI raised or answered
\* with nothing, and the request returned the placeholder.
C12_Witness ==
    /\ ai_pc = "returned"
    /\ groq_client /\ openai_client
    /\ \E k \in Attempts("groq") : ai_trace[k].kind = "exception"
    /\ \E k \in Attempts("openai") : ai_trace[k].kind \in {"exception", "none_content"}
    /\ ai_result = [kind |-> "str", value |-> Unavailable]

\* C13 as stated: OpenAI is only ever called after a Groq attempt that failed,
\* and the placeholder is only returned after both attempts failed.
C13_SecondaryOnlyAfterPrimaryFailed ==
    /\ \A k \in Attempts("openai") :
          \E j \in Attempts("groq") : j < k /\ ~Succeeded(ai_trace[j])
    /\ (ai_pc = "returned" /\ ai_result.value = Unavailable) =>
          (Attempts("groq") # {} /\ Attempts("openai") # {})

\* C13 amended: within one request Groq is attempted at most once and before
\* OpenAI, OpenAI at most once and only when there is no Groq client or the one
\* Groq attempt failed; a Groq answer ends the request with no OpenAI call; the
\* placeholder is returned only when every client there is was attempted once
\* and failed.
C13_AtMostOnceInOrder ==
    /\ Cardinality(Attempts("groq")) <= 1
    /\ Cardinality(Attempts("openai")) <= 1
    /\ \A j \in Attempts("groq") : \A k \in Attempts("openai") : j < k
    /\ Attempts("groq") # {} => groq_client
    /\ Attempts("openai") # {} => openai_client
    /\ \A k \in Attempts("openai") :
          \/ ~groq_client /\ Attempts("groq") = {}
          \/ \E j \in Attempts("groq") : ~Succeeded(ai_trace[j])
    /\ \A j \in Attempts("groq") :
          Succeeded(ai_trace[j]) =>
             /\ Attempts("openai") = {}
             /\ ai_pc = "returned"
             /\ ai_result.value # Unavailable
    /\ (ai_pc = "returned" /\ ai_result.value = Unavailable) =>
          /\ groq_client => \E j \in Attempts("groq") : ~Succeeded(ai_trace[j])
          /\ openai_client => \E k \in Attempts("openai") : ~Succeeded(ai_trace[k])

\* C13 witness: Groq was attempted once and failed, OpenAI was attempted once
\* after it and answered, and the request returned that answer.
C13_Witness ==
    /\ ai_pc = "returned"
    /\ Len(ai_trace) = 3
    /\ ai_trace[2].e = "groq" /\ ~Succeeded(ai_trace[2])
    /\ ai_trace[3].e = "openai" /\ Succeeded(ai_trace[3])
    /\ ai_result.kind = "str" /\ ai_result.value # Unavailable

\* C14: every Groq call comes straight after a wait of the Groq limiter, and
\* the timestamp the limiter holds when the call is issued is the time that
\* wait returned at; nothing moves the timestamp afterwards; an OpenAI call
\* never comes straight after a wait.
C14_WaitBeforePrimaryOnly ==
    /\ \A k \in Attempts("groq") :
          /\ k >= 2
          /\ ai_trace[k - 1].e = "wait"
          /\ ai_trace[k].stamp = ai_trace[k - 1].at
          /\ ai_trace[k - 1].at <= ai_trace[k].at
          /\ ai_trace[k - 1].at >= GroqDelaySeconds
          /\ last_groq_call_time = ai_trace[k - 1].at
    /\ \A k \in Attempts("openai") : k = 1 \/ ai_trace[k - 1].e # "wait"
    /\ Cardinality(Attempts("wait")) <= Cardinality(Attempts("groq")) + 1
    /\ ai_pc = "returned" => Cardinality(Attempts("wait")) = Cardinality(Attempts("groq"))

\* C14 witness: a request that waited, called Groq some ticks later, and went on
\* to OpenAI with no wait in between.
C14_Witness ==
    /\ Len(ai_trace) = 3
    /\ ai_trace[1].e = "wait"
    /\ ai_trace[2].e = "groq" /\ ai_trace[2].at > ai_trace[1].at
    /\ ai_trace[3].e = "openai"
    /\ last_groq_call_time = ai_trace[1].at

\* the delay of each of the two limiters
DelayOf(limiter) == IF limiter = "ai" THEN AiDelaySeconds ELSE GroqDelaySeconds

\* C15: for each of the two limiters, the return times of two consecutive waits
\* lie at least the limiter's delay apart, and the first wait returns at least
\* the delay after the initial timestamp 0, however waits and ticks interleave.
C15_WaitsAtLeastDelayApart ==
    \A limiter \in {"ai", "groq"} :
        /\ \A k \in DOMAIN wait_returns[limiter] :
              wait_returns[limiter][k] >= DelayOf(limiter)
        /\ Len(wait_returns[limiter]) = 2 =>
              wait_returns[limiter][2] - wait_returns[limiter][1] >= DelayOf(limiter)

\* C15 witness: both limiters have waited twice, and the finder's second wait
\* came straight after its first and returned exactly the delay later.
C15_Witness ==
    /\ Len(wait_returns.groq) = 2
    /\ Len(wait_returns.ai) = 2
    /\ wait_returns.ai[2] - wait_returns.ai[1] = AiDelaySeconds
    /\ wait_returns.groq[2] - wait_returns.groq[1] >= GroqDelaySeconds

\* ---------------------------------------------------------------------------
\* the number of '|' in a response: one less than the number of its fields
Bars(response) == Cardinality({ i \in DOMAIN response : response[i] = "|" })

\* the places of the first field that hold something other than a blank
FirstFieldInk(response) ==
    { i \in DOMAIN response :
        /\ response[i] # " "
        /\ \A j \in 1..i : response[j] # "|" }

\* the first field reads YES in any mix of cases once the blanks around it are
\* taken off
FirstFieldIsYes(response) ==
    \E i \in DOMAIN response :
        /\ i + 2 \in DOMAIN response
        /\ response[i] \in {"Y", "y"}
        /\ response[i + 1] \in {"E", "e"}
        /\ response[i + 2] \in {"S", "s"}
        /\ FirstFieldInk(response) = {i, i + 1, i + 2}

\* C16: a response with fewer than 3 '|'-separated fields parses to exactly
\* (False, "Could not parse AI response", ""); one with 3 fields or more is a
\* match exactly when its first field, trimmed, reads YES in any mix of cases.
C16_ParseNiche ==
    niche.parsed =>
        /\ Bars(ai_response) < 2 =>
              niche.value = [is_match |-> FALSE, explanation |-> CouldNotParse,
                             category |-> Empty]
        /\ Bars(ai_response) >= 2 =>
              (niche.value.is_match <=> FirstFieldIsYes(ai_response))

\* C16 witness: a response of two fields whose first field reads yes: parsed,
\* and turned down as unparseable.
C16_Witness ==
    /\ niche.parsed
    /\ Bars(ai_response) = 1
    /\ FirstFieldIsYes(ai_response)
    /\ ~niche.value.is_match
    /\ niche.value.explanation = CouldNotParse

\* ---------------------------------------------------------------------------
LogOf(kinds) == { n \in DOMAIN whisper_log : whisper_log[n].e \in kinds }

\* the places of the log where a submission was answered: taken or turned down
SubmissionEvents == LogOf({"enq", "reject"})

\* the k-th submission of the log, as a set of at most one place
NthSubmission(k) ==
    { n \in SubmissionEvents :
        Cardinality({ m \in SubmissionEvents : m <= n }) = k }

\* every submission so far was turned down exactly when the queue held Q
\* requests at its capacity check, and those taken got ids of their own
RejectedIffFullAtCheck ==
    /\ \A n \in LogOf({"reject"}) : whisper_log[n].qsize >= MaxQueueSize
    /\ \A n \in LogOf({"enq"}) :
          /\ whisper_log[n].qsize < MaxQueueSize
          /\ whisper_log[n].id \in used_ids
          /\ \A m \in LogOf({"enq"}) : whisper_log[m].id = whisper_log[n].id => m = n
    /\ \A h \in DOMAIN handlers :
          /\ handlers[h].http = 503 <=> handlers[h].cause = "queue_full"
          /\ handlers[h].http = 503 => handlers[h].seen_qsize >= MaxQueueSize
          /\ handlers[h].pc \in {"put", "wait", "poll"} =>
                (handlers[h].seen_qsize < MaxQueueSize /\ handlers[h].id \in used_ids)
    /\ Len(request_queue) <= MaxQueueSize

C18_TimeoutDistinctFromFailed ==
    \A h \in DOMAIN handlers :
        (handlers[h].pc = "done" /\ handlers[h].cause = "timeout") =>
            /\ handlers[h].status # "failed"
            /\ handlers[h].ret # (IF h = "sync" THEN ClientSyncReturn(200, "failed")
                                  ELSE ClientAsyncReturn(200, "failed"))

\* C19: for two jobs queued one after the other, the later one's processing
\* starts only after the earlier one's processing has started and its result
\* has been stored.
C19_FifoResultBeforeNextStart ==
    \A a, b \in LogOf({"enq"}) :
        a < b =>
            \A sb \in LogOf({"start"}) :
                whisper_log[sb].id = whisper_log[b].id =>
                    \E sa \in LogOf({"start"}), ra \in LogOf({"store"}) :
                        /\ whisper_log[sa].id = whisper_log[a].id
                        /\ whisper_log[ra].id = whisper_log[a].id
                        /\ sa < ra /\ ra < sb

\* C20: at most one job is being transcribed in any state, and between the
\* starts of two jobs the first one's transcription has ended, stored or
\* dropped, whatever the two clients do.
C20_OneJobProcessing ==
    /\ Cardinality({ w \in DOMAIN worker : worker[w].pc = "transcribe" }) <= 1
    /\ \A s1, s2 \in LogOf({"start"}) :
          s1 < s2 =>
              \E r \in LogOf({"store", "drop"}) :
                  /\ s1 < r /\ r < s2
                  /\ whisper_log[r].id = whisper_log[s1].id
    /\ \A h \in DOMAIN handlers : handlers[h].pc \in {"idle", "put", "wait", "poll", "done"}

\* C20 witness: a job is being transcribed while another waits in the queue,
\* the synchronous client waits and the asynchronous one polls.
C20_Witness ==
    /\ \E w \in DOMAIN worker : worker[w].pc = "transcribe"
    /\ request_queue # << >>
    /\ handlers["sync"].pc = "wait"
    /\ handlers["async"].pc = "poll"

\* ---------------------------------------------------------------------------
\* the ids of the results stored so far, in the order they were stored
StoreOrder ==
    LET stores == SelectSeq(whisper_log, LAMBDA event : event.e = "store")
    IN  [i \in 1..Len(stores) |-> stores[i].id]

\* C21: when a store takes the results past 100 entries, the entries thrown
\* away are the oldest by insertion order (no discarded result was stored
\* later than a retained one) and the result just stored is retained: the
\* retained results are always the most recently stored ones.
C21_DiscardsOldestKeepsNewest ==
    \E order \in {StoreOrder} :
      /\ \E n \in 0..Len(order) :
           DOMAIN results = { order[i] : i \in (n + 1)..Len(order) }
      /\ order # << >> => order[Len(order)] \in DOMAIN results

\* C22: the status poll reports for a request only moves forward: once a
\* poll has answered with a terminal status for a request id, every later
\* poll of that id answers with the same terminal status.
C22_PollOnlyMovesForward ==
    \A i, j \in DOMAIN poll_log :
        /\ i < j
        /\ poll_log[i].id = poll_log[j].id
        /\ poll_log[i].status \in {"completed", "failed"}
        => poll_log[j].status = poll_log[i].status

\* the requests the worker has finished with
Finished == { whisper_log[n].id : n \in { m \in DOMAIN whisper_log :
                                          whisper_log[m].e \in {"store", "drop"} } }

\* C23: when transcription is not available at construction the service
\* still starts and takes submissions, and every job it has taken and worked
\* through has a stored failed result with an error message.
C23_DegradedStillServes ==
    whisper \in {"init_raised", "no_model"} =>
        /\ worker # << >>
        /\ \A id \in Finished :
             /\ id \in DOMAIN results
             /\ ~results[id].success
             /\ results[id].error # "none"

\* ---------------------------------------------------------------------------
\* min_subscribers <= n <= max_subscribers
InAdmissionRange(n) == MinSubscribers <= n /\ n <= MaxSubscribers

\* C24: get_channel_details returns a profile exactly when the subscriber
\* count the API reports lies in [min_subscribers, max_subscribers], both ends
\* included, and None otherwise; a channel it returned None for is not appended
\* to the channels to process, and every channel that is handed on, processed
\* or saved has a subscriber count in the range.
C24_ProfileIffInAdmissionRange ==
    /\ ev.op = "scan" /\ ev.profile = 1 =>
         /\ (ev.stage # "filtered") <=> (ev.detail_kind = "ok" /\ InAdmissionRange(ev.subs))
         /\ ev.stage = "filtered" => ~ev.appended
    /\ \A i \in DOMAIN channels_found : InAdmissionRange(channels_found[i].subscriber_count)
    /\ \A i \in DOMAIN channels : InAdmissionRange(channels[i].subscriber_count)
    /\ ev.op = "process" => InAdmissionRange(ev.subs)

\* a channel with exactly min_subscribers subscribers has been handed on and
\* another with one more than max_subscribers has been turned down
C24_Witness ==
    /\ ev.op = "scan"
    /\ ev.stage = "filtered"
    /\ ev.detail_kind = "ok"
    /\ ev.subs = MaxSubscribers + 1
    /\ \E i \in DOMAIN channels_found :
         channels_found[i].subscriber_count = MinSubscribers

\* ---------------------------------------------------------------------------
\* one field of a duration: nothing, or digits and the field's letter
IsField(seg, letter) ==
    \/ seg = << >>
    \/ /\ Len(seg) >= 2
       /\ seg[Len(seg)] = letter
       /\ \A i \in 1..(Len(seg) - 1) : IsDigit(seg[i])

FieldValue(seg) == IF seg = << >> THEN 0 ELSE ToInt(SubSeq(seg, 1, Len(seg) - 1))

\* the ways to cut s into PT, an hours, a minutes and a seconds field
FieldCuts(s) ==
    IF ~StartsWith(s, << "P", "T" >>) THEN {}
    ELSE { cut \in (2..Len(s)) \X (2..Len(s)) :
             /\ cut[1] <= cut[2]
             /\ IsField(SubSeq(s, 3, cut[1]), "H")
             /\ IsField(SubSeq(s, cut[1] + 1, cut[2]), "M")
             /\ IsField(SubSeq(s, cut[2] + 1, Len(s)), "S") }

\* s has the form PT[hH][mM][sS]
IsDurationForm(s) == FieldCuts(s) # {}

\* 3600*h + 60*m + s of a string of that form
FormSeconds(s) ==
    LET cut == CHOOSE c \in FieldCuts(s) : TRUE
    IN  3600 * FieldValue(SubSeq(s, 3, cut[1]))
        + 60 * FieldValue(SubSeq(s, cut[1] + 1, cut[2]))
        + FieldValue(SubSeq(s, cut[2] + 1, Len(s)))

\* the seconds of the longest start of s that has the form, 0 when none has
LongestFormSeconds(s) ==
    LET starts == { n \in 0..Len(s) : IsDurationForm(SubSeq(s, 1, n)) }
    IN  IF starts = {} THEN 0
        ELSE FormSeconds(SubSeq(s, 1, CHOOSE n \in starts : \A k \in starts : k <= n))

\* C25 as stated: a duration of the form PT[hH][mM][sS] parses to
\* 3600*h + 60*m + s with absent fields 0, every other string parses to 0,
\* and is_short holds exactly when the total is at most 60.
C25_FormOrZero ==
    video_data.parsed =>
        /\ video_data.duration_seconds =
              IF IsDurationForm(duration) THEN FormSeconds(duration) ELSE 0
        /\ video_data.is_short <=> (video_data.duration_seconds <= 60)

\* C25 amended: a duration of the form parses to 3600*h + 60*m + s; any other
\* string parses to the seconds of its longest start of that form (0 when it
\* does not start with PT); is_short holds exactly when the total is at most 60.
C25_LongestFormAtStart ==
    video_data.parsed =>
        /\ IsDurationForm(duration) =>
              video_data.duration_seconds = FormSeconds(duration)
        /\ video_data.duration_seconds = LongestFormSeconds(duration)
        /\ ~StartsWith(duration, << "P", "T" >>) => video_data.duration_seconds = 0
        /\ video_data.is_short <=> (LongestFormSeconds(duration) <= 60)

\* PT1M1S has been read as 61 seconds and not a short
C25_Witness ==
    /\ video_data.parsed
    /\ duration = << "P", "T", "1", "M", "1", "S" >>
    /\ video_data.duration_seconds = 61
    /\ ~video_data.is_short

\* ---------------------------------------------------------------------------
\* C26: rotation is forward-only in every pool, the web app's manager
\* included: a switch made at the last key reports failure and leaves the
\* index where it is, and no switch takes the index from the last key to 0.
C26_AppRotationForwardOnly ==
    \A n \in DOMAIN app_log :
        app_log[n].op = "switch" =>
            IF app_log[n].at_last
            THEN ~app_log[n].ret /\ app_log[n].to = app_log[n].from
            ELSE app_log[n].to = app_log[n].from + 1

\* the API calls the app has made
AppCalls == { n \in DOMAIN app_log : app_log[n].op = "call" }

\* C27 as stated: with no YouTube key to load, the construction of the pool
\* fails in the discovery script and in the web app alike, so that no pool
\* without keys exists, and no call is made without a key.
C27_EmptyPoolNeverConstructed ==
    /\ LoadApiKeys(environ) = << >> =>
          /\ finder.status # "constructed"
          /\ api_manager = << >>
    /\ \A n \in AppCalls : app_log[n].key # 0

\* C27 amended: with no YouTube key to load the discovery script's
\* constructor raises and no finder is built; the web app's manager is built
\* with no keys, and main then shows the error and returns: it never enters
\* an analysis, makes no API call and counts no usage; no call anywhere is
\* made without a key.
C27_NoKeysNoCalls ==
    /\ LoadApiKeys(environ) = << >> =>
          /\ finder.status \in {"none", "ValueError"}
          /\ app_pc \in {"start", "main", "no_keys"}
          /\ app_log = << >>
          /\ analyses = 0
    /\ finder.status = "constructed" => finder.api_keys # << >>
    /\ \A n \in AppCalls : app_log[n].key # 0

\* only YOUTUBE_API_KEY_3 is set: the script's constructor has raised and the
\* app, its manager built without keys, has shown the error
C27_Witness ==
    /\ environ = {3}
    /\ finder.status = "ValueError"
    /\ api_manager # << >>
    /\ api_manager.api_keys = << >>
    /\ app_pc = "no_keys"

\* ---------------------------------------------------------------------------
\* the candidate step met an exception that is not the quota signal: in the
\* search for the channel's videos, in the batch call, or after the
\* classification, while the record was formatted or written
FailedUnexpectedly(event) ==
    /\ event.op = "process"
    /\ \/ event.search_kind = "error"
       \/ event.detail_kind = "error"
       \/ event.stage = "save_failed"

\* C28: an exception other than the quota signal in the processing of one
\* candidate rejects that candidate only: the accepted count, the discovered
\* set, the rows written and the active key stay as they were, and the run
\* goes on to the next candidate.
C28_UnexpectedErrorRejectsOneCandidate ==
    [][FailedUnexpectedly(ev') =>
          /\ ~ev'.ret
          /\ matches_found' = matches_found
          /\ discovered_channels' = discovered_channels
          /\ csv_rows' = csv_rows
          /\ current_key_index' = current_key_index
          /\ channels_in_keyword' = channels_in_keyword + 1
          /\ pc' = "process"
          /\ outcome' = "running"]_vars

\* a candidate's save has raised after an earlier candidate was accepted,
\* and another candidate is still to come
C28_Witness ==
    /\ FailedUnexpectedly(ev)
    /\ ev.stage = "save_failed"
    /\ pc = "process"
    /\ outcome = "running"
    /\ channels_in_keyword < Len(channels)
    /\ ev.id \notin discovered_channels

\* ---------------------------------------------------------------------------
\* the sum of the per-key usage counters
RECURSIVE SumCalls(_, _)
SumCalls(counters, n) ==
    IF n < 0 THEN 0 ELSE counters[n] + SumCalls(counters, n - 1)

TotalTracked(counters) == SumCalls(counters, Len(api_keys) - 1)

\* the API calls a step has issued
CallsIssued(event) ==
    event.keyword_search + event.profile + event.items_search + event.batch_detail

\* C30: the usage counters add up to the API calls issued: every step raises
\* the counters by the calls it has issued, on the key that was active, and so
\* also for candidates with no videos or turned down by the views filter.
C30_CountersEqualCallsIssued ==
    [][/\ TotalTracked(api_calls_per_key') - TotalTracked(api_calls_per_key)
            = CallsIssued(ev')
       /\ \A i \in DOMAIN api_calls_per_key :
            api_calls_per_key'[i] # api_calls_per_key[i] => i = ev'.key_before]_vars

\* ---------------------------------------------------------------------------
\* the requests whose submitter has given up waiting or polling
Abandoned ==
    { handlers[h].id : h \in { x \in Submitters :
          handlers[x].pc = "done" /\ handlers[x].cause = "timeout" } }

\* C29: there is no cancellation: a request whose submitter timed out is
\* still in the queue or with the worker until the worker has finished with
\* it, and once the worker has finished with it its result is in the store.
C29_AbandonedJobStillStored ==
    \A id \in Abandoned :
        \/ \E n \in DOMAIN request_queue : request_queue[n] = id
        \/ \E w \in WorkerThreads : worker[w].req = id
        \/ id \in Finished /\ id \in DOMAIN results

\* ---------------------------------------------------------------------------
\* C31: a submission never blocks its caller: every submitter that has passed
\* the capacity check finds a free slot for its put, also when two submitters
\* passed the check with one slot free; and the queue never holds more than
\* max_queue_size requests.
C31_SubmitNeverBlocks ==
    Serving =>
        /\ Len(request_queue) <= MaxQueueSize
        /\ \A h \in Submitters :
              handlers[h].pc = "put" => Len(request_queue) < MaxQueueSize

\* ---------------------------------------------------------------------------
\* C32: every accepted job gets a result: with a worker that keeps running,
\* and whatever transcribe_video does (a text, nothing, an exception), a
\* request the worker has taken from the queue is in the end stored in
\* self.results under its request id, so that a poll of it can answer
\* completed or failed.
C32_DequeuedJobEventuallyStored ==
    \A id \in RequestIds :
        (\E w \in WorkerThreads : worker[w].req = id) ~> (id \in DOMAIN results)

\* ---------------------------------------------------------------------------
\* C33: right after a rotation that succeeded the analyzer is a new one, built
\* on api_keys[current_key_index] and with nothing in its video cache; and as
\* long as the run can issue calls, the analyzer it calls through is the one
\* built on api_keys[current_key_index].
C33_AnalyzerBoundToActiveKey ==
    /\ (ev.op = "search" /\ ev.rotated) =>
          /\ current_key_index = ev.key_before + 1
          /\ analyzer_key = api_keys[current_key_index + 1]
          /\ video_cache = {}
    /\ pc \in {"loop", "search", "scan", "process"} =>
          /\ current_key_index < Len(api_keys)
          /\ analyzer_key = api_keys[current_key_index + 1]

\* C33 witness: a rotation has just succeeded after a channel was accepted, so
\* that the analyzer left behind had that channel's videos in its cache.
C33_Witness ==
    /\ ev.op = "search"
    /\ ev.rotated
    /\ csv_rows # Empty
    /\ analyzer_key = api_keys[current_key_index + 1]
    /\ video_cache = {}

\* ---------------------------------------------------------------------------
\* a keyword search, a profile fetch or a videos fetch that failed with an
\* error other than the quota signal
FailedWithoutQuota(event) ==
    \/ event.op = "search" /\ event.search_kind = "error"
    \/ event.op = "scan" /\ event.detail_kind = "error"
    \/ event.op = "process" /\ "error" \in {event.search_kind, event.detail_kind}

\* C34: the key index moves only in a step that met the quota signal; a step
\* whose fetch failed with another error leaves the key index, the analyzer
\* and the discovered set as they were and gives nothing: no channels for the
\* keyword, no profile for the channel, no videos for the candidate.
C34_RotationOnlyOnQuota ==
    [][/\ current_key_index' # current_key_index => ev'.quota
       /\ FailedWithoutQuota(ev') =>
             /\ UNCHANGED << current_key_index, analyzer_key, video_cache,
                             discovered_channels, rotate_log >>
             /\ ev'.op = "search" => (channels' = Empty /\ pc' = "process")
             /\ ev'.op = "scan" =>
                   (ev'.stage = "filtered" /\ channels_found' = channels_found)
             /\ ev'.op = "process" =>
                   (ev'.stage = "no_videos" /\ ~ev'.ret /\ ~ev'.saved)]_vars

\* C34 witness: a keyword search has just failed with another error than the
\* quota signal while a further key was there to rotate to.
C34_Witness ==
    /\ ev.op = "search"
    /\ ev.search_kind = "error"
    /\ current_key_index + 1 < Len(api_keys)
    /\ channels = Empty
    /\ rotate_log = Empty

\* ---------------------------------------------------------------------------
\* the calls the app made during its a-th analysis
AnalysisCalls(a) == { n \in AppCalls : app_log[n].analysis = a }

\* C35: quota retries are bounded by the size of the pool: a discovery run
\* with len keys makes at most len-1 rotations that succeed and attempts one
\* keyword search again at most len-1 times; one analysis of the web app makes
\* at most len attempts, no two of them with the same key.
C35_RetriesBoundedByPool ==
    /\ Cardinality({ k \in DOMAIN rotate_log : rotate_log[k].ok }) <= Len(api_keys) - 1
    /\ ev.op = "search" => ev.retries <= Len(api_keys) - 1
    /\ app_pc \notin {"off", "start"} =>
          \A a \in 1..analyses :
              /\ Cardinality(AnalysisCalls(a)) <= Len(api_manager.api_keys)
              /\ \A m, n \in AnalysisCalls(a) :
                    m # n => app_log[m].key # app_log[n].key

\* C35 witness: an analysis of the web app that met the quota signal on each
\* of its two or more keys, the second analysis of its session.
C35_Witness ==
    /\ app_pc = "analyze"
    /\ analyses = 2
    /\ Len(api_manager.api_keys) >= 2
    /\ retry_count = Len(api_manager.api_keys)
    /\ Cardinality(AnalysisCalls(analyses)) = Len(api_manager.api_keys)

\* C35 witness of the discovery run: a keyword search attempted again after
\* each of the len-1 rotations the pool allows.
C35_SearchRetriedWitness ==
    /\ ev.op = "search"
    /\ Len(api_keys) >= 2
    /\ ev.retries = Len(api_keys) - 1
    /\ Cardinality({ k \in DOMAIN rotate_log : rotate_log[k].ok }) = Len(api_keys) - 1

\* ---------------------------------------------------------------------------
\* C36: the results store is bounded: between two turns of the worker's loop
\* it holds at most 100 results, and the dictionary a turn has built before
\* its clean-up, which is what it held before together with what it holds
\* after, has at most 101.
C36_ResultsStoreBounded ==
    [][/\ Cardinality(DOMAIN results) <= ResultsLimit
       /\ Cardinality(DOMAIN results') <= ResultsLimit
       /\ Cardinality(DOMAIN results \cup DOMAIN results') <= ResultsLimit + 1]_vars

\* C36 witness: the worker has stored the 101st result and the clean-up has
\* taken 50 of them out.
C36_Witness ==
    /\ Cardinality(DOMAIN results) = ResultsLimit + 1 - ResultsEvicted
    /\ whisper_log[Len(whisper_log)].e = "store"

\* ---------------------------------------------------------------------------
\* the channels of the last keyword that process_channel_optimized was called on
Processed == { channels[i].channel_id : i \in 1..channels_in_keyword }

\* C37: within a run a channel is evaluated at most once: no profile call is
\* made, while the results of the next keyword are gone through, for a channel
\* that process_channel_optimized has been called on under the keyword before.
C37_EvaluatedAtMostOnce ==
    (ev.op = "scan" /\ ev.id \in Processed) => ev.profile = 0

\* ---------------------------------------------------------------------------
\* C38: when both providers have failed and analyze_content has returned the
\* placeholder, the candidate is not taken for a match: the step returns
\* False, writes no row and leaves the channel out of discovered_channels.
C38_PlaceholderNeverPositive ==
    (ev.op = "process" /\ ev.ai_unavailable) =>
        /\ ev.stage = "no_match"
        /\ ~ev.ret
        /\ ~ev.saved
        /\ ev.id \notin discovered_channels
        /\ \A n \in DOMAIN csv_rows : csv_rows[n] # ev.id

\* C38 witness: a candidate past the views filter whose classification came
\* back as the placeholder.
C38_Witness ==
    /\ ev.op = "process"
    /\ ev.ai_unavailable
    /\ ev.classify = 1
    /\ ev.qualifying >= MinVideosWithMinViews
    /\ ~ev.ret

\* ---------------------------------------------------------------------------
\* C39: all through a run matches_found is the number of rows written to the
\* CSV file and the number of channels put into discovered_channels, no
\* channel twice, and it is never above the target.
C39_AcceptedCountConsistent ==
    pc \in {"loop", "search", "scan", "process", "done"} =>
        /\ matches_found = Len(csv_rows)
        /\ matches_found = Cardinality(discovered_channels)
        /\ discovered_channels = { csv_rows[n] : n \in DOMAIN csv_rows }
        /\ matches_found <= target

\* C39 witness: the run has ended because its target of two was reached, with
\* two rows written.
C39_Witness ==
    /\ pc = "done"
    /\ target = 2
    /\ matches_found = 2
    /\ Len(csv_rows) = 2
    /\ done_reason = "target"

\* ---------------------------------------------------------------------------
\* C40: the service's counters stay consistent under handlers and worker
\* running side by side: completed + failed is never above total_requests,
\* and with the queue empty and the worker idle the two are equal.
C40_CountersConsistent ==
    Serving =>
        /\ processing_stats.completed + processing_stats.failed
              <= processing_stats.total_requests
        /\ (request_queue = << >> /\ \A w \in WorkerThreads : worker[w].pc = "get") =>
              processing_stats.total_requests
                 = processing_stats.completed + processing_stats.failed

====
